---- MODULE Spec2Model ----
(***************************************************************************)
(* A state-machine model of the UMD card-game engine (src/src/game.ts,     *)
(* src/src/player.ts, src/src/card.ts).  Every handler of class Game is a  *)
(* pure operator from a game record to a game record, translated from its  *)
(* code; an action applies one handler (or one timer callback) to the      *)
(* current state.  Cards are identified by their id (an index into         *)
(* createDeck); colour, type and value are read from createDeck.           *)
(***************************************************************************)
EXTENDS Integers, Sequences, FiniteSets, TLC

VARIABLES players, deck, discardPile, currentPlayerIndex, turnDirection,
          gamePhase, lastPlayedHand, lastPlayedHandType, lastPlayedBy,
          currentColor, pendingDrawCount, pendingDrawType, pendingEffect,
          pendingActions, actionTimeout, claimQueue, claimQueueIndex,
          hasActiveRound, passCount, unoTimers, steps

gameVars == <<players, deck, discardPile, currentPlayerIndex, turnDirection,
              gamePhase, lastPlayedHand, lastPlayedHandType, lastPlayedBy,
              currentColor, pendingDrawCount, pendingDrawType, pendingEffect,
              pendingActions, actionTimeout, claimQueue, claimQueueIndex,
              hasActiveRound, passCount, unoTimers>>

vars == <<gameVars, steps>>

(***************************************************************************)
(* Bounds of the model.                                                    *)
(***************************************************************************)
\* number of distinct player ids that may join
NumPlayerIds == 3
\* cards dealt to each player by startGame (13 in the source)
DealCount == 3
\* longest card list a PLAY_CARDS action submits
MaxPlayLen == 3
\* number of state-changing events explored from the initial state
MaxSteps == 6

PlayerIds == 1..NumPlayerIds

(***************************************************************************)
(* card.ts: enums, the deck, card helpers.                                 *)
(***************************************************************************)
\* CardColor (the enum values are not English words in the source)
RED == "R"
YELLOW == "Y"
WILDCOLOR == "W"
NULL == "null"

NUMBER == "number"
SKIP == "skip"
REVERSE == "reverse"
DRAW_TWO == "draw2"
WILD == "wild"
WILD_DRAW_FOUR == "wild_draw4"

WAITING == "waiting"
PLAYING == "playing"
ENDED == "ended"

SINGLE == "single"
PAIR == "pair"
TRIPLE == "triple"
FULL_HOUSE == "full_house"
STRAIGHT == "straight"
CONSECUTIVE_PAIRS == "consecutive_pairs"
AIRPLANE == "airplane"
BOMB == "bomb"

Card(c, t, v) == [color |-> c, type |-> t, value |-> v]

\* createDeck with reduced multiplicities: card id = position in this tuple.
\* Special cards carry value -1 (their value is a symbolic name in the source).
createDeck ==
  << Card(RED, NUMBER, 5), Card(RED, NUMBER, 5), Card(RED, NUMBER, 5),
     Card(RED, NUMBER, 5), Card(RED, NUMBER, 3), Card(RED, NUMBER, 4),
     Card(RED, NUMBER, 6), Card(YELLOW, NUMBER, 5), Card(RED, SKIP, -1),
     Card(RED, REVERSE, -1), Card(RED, DRAW_TWO, -1), Card(RED, DRAW_TWO, -1),
     Card(RED, DRAW_TWO, -1), Card(WILDCOLOR, WILD, -1),
     Card(WILDCOLOR, WILD_DRAW_FOUR, -1), Card(RED, NUMBER, 5),
     Card(RED, NUMBER, 5), Card(WILDCOLOR, WILD_DRAW_FOUR, -1),
     Card(WILDCOLOR, WILD_DRAW_FOUR, -1), Card(RED, NUMBER, 6),
     Card(RED, NUMBER, 6), Card(RED, NUMBER, 6), Card(RED, SKIP, -1),
     Card(RED, DRAW_TWO, -1), Card(RED, NUMBER, 3), Card(RED, NUMBER, 3),
     Card(RED, NUMBER, 3), Card(RED, NUMBER, 7), Card(RED, NUMBER, 8),
     Card(RED, NUMBER, 9), Card(RED, NUMBER, 4), Card(RED, NUMBER, 7),
     Card(RED, NUMBER, 7), Card(RED, SKIP, -1), Card(RED, SKIP, -1),
     Card(RED, REVERSE, -1), Card(RED, REVERSE, -1), Card(RED, REVERSE, -1),
     Card(WILDCOLOR, WILD_DRAW_FOUR, -1) >>

Cards == 1..Len(createDeck)

colorOf(c) == createDeck[c].color
typeOf(c) == createDeck[c].type
valueOf(c) == createDeck[c].value

cardsAreIdentical(c1, c2) ==
  /\ colorOf(c1) = colorOf(c2)
  /\ valueOf(c1) = valueOf(c2)
  /\ typeOf(c1) = typeOf(c2)

getCardPower(c) ==
  CASE typeOf(c) = NUMBER -> valueOf(c)
    [] typeOf(c) = SKIP -> 100
    [] typeOf(c) = REVERSE -> 200
    [] typeOf(c) = DRAW_TWO -> 300
    [] typeOf(c) \in {WILD, WILD_DRAW_FOUR} -> 400
    [] OTHER -> 0

\* Sequence helpers.
RECURSIVE Reverse(_)
Reverse(s) == IF s = <<>> THEN <<>> ELSE Append(Reverse(Tail(s)), Head(s))

RECURSIVE Flat(_)
Flat(ss) == IF ss = <<>> THEN <<>> ELSE Head(ss) \o Flat(Tail(ss))

Range(s) == {s[i] : i \in 1..Len(s)}

Filter(s, Test(_)) == SelectSeq(s, Test)

RemoveAt(s, i) == SubSeq(s, 1, i - 1) \o SubSeq(s, i + 1, Len(s))

\* index (1-based) of the first element satisfying Test, 0 when none
FirstIndex(s, Test(_)) ==
  IF \E i \in 1..Len(s) : Test(s[i])
  THEN CHOOSE i \in 1..Len(s) : Test(s[i]) /\ \A j \in 1..(i - 1) : ~Test(s[j])
  ELSE 0

\* shuffleDeck returns a permutation of its argument (Fisher-Yates with
\* Math.random); the permutation is drawn from a bounded set of outcomes.
ShuffleModes == {"keep", "reverse"}
shuffleDeck(cards, sh) == IF sh = "reverse" THEN Reverse(cards) ELSE cards

(***************************************************************************)
(* player.ts                                                               *)
(***************************************************************************)
createPlayer(id) ==
  [id |-> id, hand |-> <<>>, hasCalledUno |-> FALSE, meldedCards |-> <<>>,
   isSkipped |-> FALSE]

\* removeCardsFromHand: removes card after card by id and stops at the first
\* card that is missing; the cards removed before that stay removed.
RECURSIVE removeCardsFromHand(_, _)
removeCardsFromHand(hand, cardsToRemove) ==
  IF cardsToRemove = <<>> THEN [hand |-> hand, ok |-> TRUE]
  ELSE LET index == FirstIndex(hand, LAMBDA c : c = Head(cardsToRemove))
       IN IF index = 0 THEN [hand |-> hand, ok |-> FALSE]
          ELSE removeCardsFromHand(RemoveAt(hand, index), Tail(cardsToRemove))

hasCards(hand, cards) == \A i \in 1..Len(cards) : cards[i] \in Range(hand)

(***************************************************************************)
(* game.ts: the game record and its accessors.                             *)
(***************************************************************************)
NoEffect == [card |-> 0, playedById |-> 0, chosenColor |-> NULL]

Game ==
  [players |-> players, deck |-> deck, discardPile |-> discardPile,
   currentPlayerIndex |-> currentPlayerIndex, turnDirection |-> turnDirection,
   gamePhase |-> gamePhase, lastPlayedHand |-> lastPlayedHand,
   lastPlayedHandType |-> lastPlayedHandType, lastPlayedBy |-> lastPlayedBy,
   currentColor |-> currentColor, pendingDrawCount |-> pendingDrawCount,
   pendingDrawType |-> pendingDrawType, pendingEffect |-> pendingEffect,
   pendingActions |-> pendingActions, actionTimeout |-> actionTimeout,
   claimQueue |-> claimQueue, claimQueueIndex |-> claimQueueIndex,
   hasActiveRound |-> hasActiveRound, passCount |-> passCount,
   unoTimers |-> unoTimers]

\* field initialisers of class Game and its constructor
NewGame(d) ==
  [players |-> <<>>, deck |-> d, discardPile |-> <<>>,
   currentPlayerIndex |-> 0, turnDirection |-> 1, gamePhase |-> WAITING,
   lastPlayedHand |-> <<>>, lastPlayedHandType |-> NULL, lastPlayedBy |-> 0,
   currentColor |-> NULL, pendingDrawCount |-> 0, pendingDrawType |-> NULL,
   pendingEffect |-> NoEffect, pendingActions |-> <<>>,
   actionTimeout |-> FALSE, claimQueue |-> <<>>, claimQueueIndex |-> 0,
   hasActiveRound |-> FALSE, passCount |-> 0, unoTimers |-> {}]

NumPlayers(g) == Len(g.players)

\* players[i] for a 0-based index i
PlayerAt(g, i) == g.players[i + 1]

\* players.findIndex(p => p.id === id): 0-based, -1 when absent
findIndexById(g, id) ==
  FirstIndex(g.players, LAMBDA p : p.id = id) - 1

getPlayerById(g, id) == PlayerAt(g, findIndexById(g, id))

HasPlayer(g, id) == findIndexById(g, id) >= 0

clearUnoTimer(g, id) == [g EXCEPT !.unoTimers = @ \ {id}]

\* onPlayerHandChanged for the player at 0-based index i
onPlayerHandChanged(g, i) ==
  LET player == PlayerAt(g, i)
  IN IF Len(player.hand) # 1
     THEN clearUnoTimer([g EXCEPT !.players[i + 1].hasCalledUno = FALSE],
                        player.id)
     ELSE IF player.hasCalledUno THEN clearUnoTimer(g, player.id)
     ELSE [g EXCEPT !.unoTimers = @ \cup {player.id}]

isClaimWindowActive(g) ==
  /\ g.pendingEffect # NoEffect
  /\ g.actionTimeout
  /\ Len(g.claimQueue) > 0

\* 0 stands for null
getCurrentClaimPlayerId(g) ==
  IF ~isClaimWindowActive(g) THEN 0
  ELSE IF g.claimQueueIndex + 1 \in 1..Len(g.claimQueue)
       THEN g.claimQueue[g.claimQueueIndex + 1].playerId
       ELSE 0

\* faulty variant of getNextPlayerIndex: the index stops at the ends of the
\* player list instead of wrapping around
getNextPlayerIndexNoWrap(g) ==
  IF g.currentPlayerIndex + g.turnDirection >= NumPlayers(g)
  THEN NumPlayers(g) - 1
  ELSE IF g.currentPlayerIndex + g.turnDirection < 0 THEN 0
  ELSE g.currentPlayerIndex + g.turnDirection

getNextPlayerIndex(g) ==
  (g.currentPlayerIndex + g.turnDirection + NumPlayers(g)) % NumPlayers(g)

\* drawCardsForPlayer for the player at 0-based index i
RECURSIVE drawLoop(_, _, _, _)
drawLoop(g, i, count, sh) ==
  IF count = 0 THEN g
  ELSE LET g1 == IF Len(g.deck) = 0 /\ Len(g.discardPile) > 0
                 THEN [g EXCEPT !.deck = shuffleDeck(Flat(g.discardPile), sh),
                                !.discardPile = <<>>]
                 ELSE g
       IN IF Len(g.deck) = 0 /\ Len(g.discardPile) = 0 THEN g
          ELSE IF Len(g1.deck) = 0 THEN drawLoop(g1, i, count - 1, sh)
          ELSE drawLoop([g1 EXCEPT
                           !.deck = SubSeq(@, 1, Len(@) - 1),
                           !.players[i + 1].hand =
                              Append(@, g1.deck[Len(g1.deck)])],
                        i, count - 1, sh)

drawCardsForPlayer(g, i, count, sh) ==
  onPlayerHandChanged(drawLoop(g, i, count, sh), i)

endGame(g) == [g EXCEPT !.gamePhase = ENDED, !.unoTimers = {}]

playerCanRespondToPendingDraw(g, i) ==
  LET hand == PlayerAt(g, i).hand
  IN \/ IF g.pendingDrawType = WILD_DRAW_FOUR
        THEN \E k \in 1..Len(hand) : typeOf(hand[k]) = WILD_DRAW_FOUR
        ELSE \E k \in 1..Len(hand) :
                typeOf(hand[k]) \in {DRAW_TWO, WILD_DRAW_FOUR}
     \* bomb response: 4+ identical cards
     \/ \E k \in 1..Len(hand) :
          Cardinality({j \in 1..Len(hand) :
                          cardsAreIdentical(hand[j], hand[k])}) >= 4

\* faulty variant of consumeSkips: a flagged seat is passed over and keeps its
\* flag
RECURSIVE consumeSkipsKeepingFlag(_, _, _)
consumeSkipsKeepingFlag(g, nextIndex, i) ==
  IF i >= NumPlayers(g) \/ ~PlayerAt(g, nextIndex).isSkipped
  THEN [g |-> g, nextIndex |-> nextIndex]
  ELSE consumeSkipsKeepingFlag(g,
                    (nextIndex + g.turnDirection + NumPlayers(g))
                       % NumPlayers(g),
                    i + 1)

\* the inner loop of nextTurn: consume skip flags starting at nextIndex
RECURSIVE consumeSkips(_, _, _)
consumeSkips(g, nextIndex, i) ==
  IF i >= NumPlayers(g) \/ ~PlayerAt(g, nextIndex).isSkipped
  THEN [g |-> g, nextIndex |-> nextIndex]
  ELSE consumeSkips([g EXCEPT !.players[nextIndex + 1].isSkipped = FALSE],
                    (nextIndex + g.turnDirection + NumPlayers(g))
                       % NumPlayers(g),
                    i + 1)

RECURSIVE nextTurnLoop(_, _, _)

\* faulty variant of the forced draw: the count is cleared, the type is not
settlePendingDrawKeepingType(g, safety, sh) ==
  IF g.pendingDrawCount > 0
     /\ ~playerCanRespondToPendingDraw(g, g.currentPlayerIndex)
  THEN nextTurnLoop(
         drawCardsForPlayer(
           [g EXCEPT !.pendingDrawCount = 0],
           g.currentPlayerIndex, g.pendingDrawCount, sh),
         safety + 1, sh)
  ELSE g

\* nextTurn, lines 1660-1692: the seat the turn reached takes a pending
\* penalty it cannot answer and the turn advances again
settlePendingDraw(g, safety, sh) ==
  IF g.pendingDrawCount > 0
     /\ ~playerCanRespondToPendingDraw(g, g.currentPlayerIndex)
  THEN nextTurnLoop(
         drawCardsForPlayer(
           [g EXCEPT !.pendingDrawCount = 0, !.pendingDrawType = NULL],
           g.currentPlayerIndex, g.pendingDrawCount, sh),
         safety + 1, sh)
  ELSE g

\* this.currentPlayerIndex = nextIndex, on the result r of consumeSkips
seatTurn(r) == [r.g EXCEPT !.currentPlayerIndex = r.nextIndex]

\* faulty variant of nextTurn's loop: the turn goes to the next seat without
\* reading its skip flag
nextTurnLoopIgnoringSkips(g, safety, sh) ==
  IF safety >= NumPlayers(g) + 2 THEN g
  ELSE settlePendingDraw([g EXCEPT !.currentPlayerIndex =
                                     getNextPlayerIndex(g)],
                         safety, sh)

nextTurnLoop(g, safety, sh) ==
  IF safety >= NumPlayers(g) + 2 THEN g
  ELSE settlePendingDraw(seatTurn(consumeSkips(g, getNextPlayerIndex(g), 0)),
                         safety, sh)

nextTurn(g, sh) ==
  IF NumPlayers(g) = 0 THEN g ELSE nextTurnLoop(g, 0, sh)

\* faulty variant of applyCardEffects' iteration: a WILD_DRAW_FOUR replaces
\* the pending penalty instead of adding to it
applyOneCardEffectNoStack(g, card, chosenColor) ==
  CASE typeOf(card) = SKIP ->
         IF NumPlayers(g) = 0 THEN g
         ELSE [g EXCEPT !.players[getNextPlayerIndex(g) + 1].isSkipped = TRUE]
    [] typeOf(card) = REVERSE ->
         LET g1 == [g EXCEPT !.turnDirection = -1 * @]
         IN IF NumPlayers(g1) = 2
            THEN [g1 EXCEPT
                    !.players[getNextPlayerIndex(g1) + 1].isSkipped = TRUE]
            ELSE g1
    [] typeOf(card) = DRAW_TWO ->
         [g EXCEPT !.pendingDrawCount = @ + 2, !.pendingDrawType = DRAW_TWO]
    [] typeOf(card) = WILD ->
         IF chosenColor # NULL THEN [g EXCEPT !.currentColor = chosenColor]
         ELSE g
    [] typeOf(card) = WILD_DRAW_FOUR ->
         LET g1 == IF chosenColor # NULL
                   THEN [g EXCEPT !.currentColor = chosenColor] ELSE g
         IN [g1 EXCEPT !.pendingDrawCount = 4,
                       !.pendingDrawType = WILD_DRAW_FOUR]
    [] OTHER -> g

\* one iteration of applyCardEffects' loop
applyOneCardEffect(g, card, chosenColor) ==
  CASE typeOf(card) = SKIP ->
         \* with no player left players[NaN] is undefined and the callback
         \* throws before changing anything
         IF NumPlayers(g) = 0 THEN g
         ELSE [g EXCEPT !.players[getNextPlayerIndex(g) + 1].isSkipped = TRUE]
    [] typeOf(card) = REVERSE ->
         LET g1 == [g EXCEPT !.turnDirection = -1 * @]
         IN IF NumPlayers(g1) = 2
            THEN [g1 EXCEPT
                    !.players[getNextPlayerIndex(g1) + 1].isSkipped = TRUE]
            ELSE g1
    [] typeOf(card) = DRAW_TWO ->
         [g EXCEPT !.pendingDrawCount = @ + 2, !.pendingDrawType = DRAW_TWO]
    [] typeOf(card) = WILD ->
         IF chosenColor # NULL THEN [g EXCEPT !.currentColor = chosenColor]
         ELSE g
    [] typeOf(card) = WILD_DRAW_FOUR ->
         LET g1 == IF chosenColor # NULL
                   THEN [g EXCEPT !.currentColor = chosenColor] ELSE g
         IN [g1 EXCEPT !.pendingDrawCount = @ + 4,
                       !.pendingDrawType = WILD_DRAW_FOUR]
    [] OTHER -> g

RECURSIVE applyCardEffects(_, _, _)
applyCardEffects(g, cards, chosenColor) ==
  IF cards = <<>> THEN g
  ELSE applyCardEffects(applyOneCardEffect(g, Head(cards), chosenColor),
                        Tail(cards), chosenColor)

\* resolvePendingEffectNoClaim, lines 531-545: g is the state with the claim
\* state already cleared, pending the effect read before
applyPendingEffect(g, pending, sh) ==
  nextTurn(
    applyCardEffects(
      [g EXCEPT
         !.pendingEffect = NoEffect,
         !.currentPlayerIndex =
            IF findIndexById(g, pending.playedById) >= 0
            THEN findIndexById(g, pending.playedById) ELSE @,
         !.currentColor =
            IF typeOf(pending.card) \notin {WILD, WILD_DRAW_FOUR}
            THEN colorOf(pending.card) ELSE @],
      <<pending.card>>, pending.chosenColor),
    sh)

resolvePendingEffectNoClaim(g, sh) ==
  IF g.pendingEffect = NoEffect
  THEN [g EXCEPT !.actionTimeout = FALSE, !.pendingActions = <<>>,
                 !.claimQueue = <<>>, !.claimQueueIndex = 0]
  ELSE applyPendingEffect(
         [g EXCEPT !.actionTimeout = FALSE, !.pendingActions = <<>>,
                   !.claimQueue = <<>>, !.claimQueueIndex = 0],
         g.pendingEffect, sh)

\* faulty variant of promptNextClaimCandidate: an exhausted queue drops the
\* pending effect and only advances the turn
promptNextDroppingEffect(g, sh) ==
  IF g.claimQueueIndex >= Len(g.claimQueue)
  THEN nextTurn(
         [g EXCEPT !.actionTimeout = FALSE, !.pendingActions = <<>>,
                   !.claimQueue = <<>>, !.claimQueueIndex = 0,
                   !.pendingEffect = NoEffect], sh)
  ELSE [g EXCEPT
          !.pendingActions = g.claimQueue[g.claimQueueIndex + 1].actions,
          !.actionTimeout = TRUE]

promptNextClaimCandidate(g, sh) ==
  IF g.claimQueueIndex >= Len(g.claimQueue)
  THEN resolvePendingEffectNoClaim(
         [g EXCEPT !.actionTimeout = FALSE, !.pendingActions = <<>>,
                   !.claimQueue = <<>>, !.claimQueueIndex = 0], sh)
  ELSE [g EXCEPT
          !.pendingActions = g.claimQueue[g.claimQueueIndex + 1].actions,
          !.actionTimeout = TRUE]

\* the callback armed by promptNextClaimCandidate
claimTimeoutCallback(g, sh) ==
  promptNextClaimCandidate(
    [g EXCEPT !.pendingActions = <<>>, !.claimQueueIndex = @ + 1], sh)

PotentialAction(t, pid, cs, target) ==
  [type |-> t, playerId |-> pid, cards |-> cs, targetCard |-> target]

\* the seats asked, in turn order from the next seat (0-based indices)
claimOrder(g) ==
  [k \in 1..(NumPlayers(g) - 1) |->
     (getNextPlayerIndex(g) + (k - 1) * g.turnDirection + NumPlayers(g))
        % NumPlayers(g)]

identicalInHand(g, idx, card) ==
  Filter(PlayerAt(g, idx).hand, LAMBDA c : cardsAreIdentical(c, card))

hasGang(g, idx, card, playedById) ==
  /\ PlayerAt(g, idx).id # playedById
  /\ Len(identicalInHand(g, idx, card)) >= 3

\* faulty variant of hasPeng: a seat that is offered GANG is offered PENG too
hasPengAlsoWithGang(g, idx, card, playedById) ==
  /\ PlayerAt(g, idx).id # playedById
  /\ Len(identicalInHand(g, idx, card)) >= 2

hasPeng(g, idx, card, playedById) ==
  /\ PlayerAt(g, idx).id # playedById
  /\ ~hasGang(g, idx, card, playedById)
  /\ Len(identicalInHand(g, idx, card)) >= 2

\* the CHI options of the next seat, in the order the code pushes them
chiOptions(g, card, playedById) ==
  LET startIndex == getNextPlayerIndex(g)
      nextPlayer == PlayerAt(g, startIndex)
      sameColorCards ==
        Filter(nextPlayer.hand,
               LAMBDA c : colorOf(c) = colorOf(card) /\ typeOf(c) = NUMBER)
      values == {valueOf(c) : c \in Range(sameColorCards)}
      find(v) ==
        sameColorCards[FirstIndex(sameColorCards, LAMBDA c : valueOf(c) = v)]
      cardValue == valueOf(card)
      opt(a, b) ==
        IF a \in values /\ b \in values
        THEN <<PotentialAction("CHI", nextPlayer.id, <<find(a), find(b)>>,
                               card)>>
        ELSE <<>>
  IN IF nextPlayer.id # playedById /\ typeOf(card) = NUMBER
     THEN opt(cardValue - 2, cardValue - 1)
          \o opt(cardValue - 1, cardValue + 1)
          \o opt(cardValue + 1, cardValue + 2)
     ELSE <<>>

\* faulty variant of claimQueueOf: the CHI entry is queued first
claimQueueChiFirst(g, gangSeats, pengSeats, chiSeats, chi, card) ==
  [k \in 1..Len(chiSeats) |->
     [playerId |-> PlayerAt(g, chiSeats[k]).id, actions |-> chi]]
  \o
  [k \in 1..Len(gangSeats) |->
     [playerId |-> PlayerAt(g, gangSeats[k]).id,
      actions |->
        <<PotentialAction("GANG", PlayerAt(g, gangSeats[k]).id,
            SubSeq(identicalInHand(g, gangSeats[k], card), 1, 3), card)>>]]
  \o
  [k \in 1..Len(pengSeats) |->
     [playerId |-> PlayerAt(g, pengSeats[k]).id,
      actions |->
        <<PotentialAction("PENG", PlayerAt(g, pengSeats[k]).id,
            SubSeq(identicalInHand(g, pengSeats[k], card), 1, 2), card)>>]]

\* lines 1131-1156: the queue from the seats found eligible, GANG > PENG > CHI
claimQueueOf(g, gangSeats, pengSeats, chiSeats, chi, card) ==
  [k \in 1..Len(gangSeats) |->
     [playerId |-> PlayerAt(g, gangSeats[k]).id,
      actions |->
        <<PotentialAction("GANG", PlayerAt(g, gangSeats[k]).id,
            SubSeq(identicalInHand(g, gangSeats[k], card), 1, 3), card)>>]]
  \o
  [k \in 1..Len(pengSeats) |->
     [playerId |-> PlayerAt(g, pengSeats[k]).id,
      actions |->
        <<PotentialAction("PENG", PlayerAt(g, pengSeats[k]).id,
            SubSeq(identicalInHand(g, pengSeats[k], card), 1, 2), card)>>]]
  \o
  [k \in 1..Len(chiSeats) |->
     [playerId |-> PlayerAt(g, chiSeats[k]).id, actions |-> chi]]

\* the seats of order that get a CHI entry
chiSeatsOf(g, order, chi, card, playedById) ==
  Filter(order,
         LAMBDA idx : /\ ~hasGang(g, idx, card, playedById)
                      /\ ~hasPeng(g, idx, card, playedById)
                      /\ chi # <<>>
                      /\ PlayerAt(g, idx).id = chi[1].playerId)

claimQueueIn(g, order, chi, card, playedById) ==
  claimQueueOf(g,
    Filter(order, LAMBDA idx : hasGang(g, idx, card, playedById)),
    Filter(order, LAMBDA idx : hasPeng(g, idx, card, playedById)),
    chiSeatsOf(g, order, chi, card, playedById),
    chi, card)

\* the claim queue findPotentialActions builds
buildClaimQueue(g, card, playedById) ==
  claimQueueIn(g, claimOrder(g), chiOptions(g, card, playedById), card,
               playedById)

\* lines 1158-1163
promptIfAnyClaim(g, sh) ==
  IF Len(g.claimQueue) = 0 THEN g ELSE promptNextClaimCandidate(g, sh)

\* findPotentialActions; its boolean result is claimQueue # <<>>
findPotentialActions(g, card, playedById, sh) ==
  promptIfAnyClaim(
    [g EXCEPT !.pendingActions = <<>>,
              !.claimQueue = buildClaimQueue(g, card, playedById),
              !.claimQueueIndex = 0], sh)

(***************************************************************************)
(* Hand evaluator.                                                         *)
(***************************************************************************)
\* insert x into the ascending sequence s, after the elements equal to it
RECURSIVE InsertSorted(_, _)
InsertSorted(s, x) ==
  IF s = <<>> THEN <<x>>
  ELSE IF x < Head(s) THEN <<x>> \o s
       ELSE <<Head(s)>> \o InsertSorted(Tail(s), x)

\* Array.prototype.sort((a, b) => a - b) on numbers
RECURSIVE SortInts(_)
SortInts(s) ==
  IF s = <<>> THEN <<>>
  ELSE InsertSorted(SortInts(SubSeq(s, 1, Len(s) - 1)), s[Len(s)])

Consecutive(vs) == \A i \in 2..Len(vs) : vs[i] = vs[i - 1] + 1

allNumbers(cards) == \A i \in 1..Len(cards) : typeOf(cards[i]) = NUMBER

\* counts.get(v) of the rank-count maps
countOfValue(cards, v) ==
  Cardinality({i \in 1..Len(cards) : valueOf(cards[i]) = v})

\* Array.from(counts.keys()).sort(...)
sortedValues(cards) ==
  SortInts(Filter([v \in 1..10 |-> v - 1],
                  LAMBDA v : countOfValue(cards, v) > 0))

\* faulty variant of isStraight: the ranks are compared in the order the
\* cards were submitted
isStraightAsSubmitted(cards) ==
  LET numberCards == Filter(cards, LAMBDA c : typeOf(c) = NUMBER)
      numbers == [i \in 1..Len(numberCards) |-> valueOf(numberCards[i])]
  IN Len(numbers) = Len(cards) /\ Consecutive(numbers)

isStraight(cards) ==
  LET numberCards == Filter(cards, LAMBDA c : typeOf(c) = NUMBER)
      numbers == SortInts([i \in 1..Len(numberCards) |->
                             valueOf(numberCards[i])])
  IN Len(numbers) = Len(cards) /\ Consecutive(numbers)

isConsecutivePairs(cards) ==
  /\ allNumbers(cards)
  /\ \A k \in 1..Len(sortedValues(cards)) :
        countOfValue(cards, sortedValues(cards)[k]) = 2
  /\ Consecutive(sortedValues(cards))
  /\ Len(sortedValues(cards)) * 2 = Len(cards)

isAirplane(cards) ==
  /\ allNumbers(cards)
  /\ \A k \in 1..Len(sortedValues(cards)) :
        countOfValue(cards, sortedValues(cards)[k]) = 3
  /\ Consecutive(sortedValues(cards))
  /\ Len(sortedValues(cards)) * 3 = Len(cards)

isFullHouse(cards) ==
  /\ allNumbers(cards)
  /\ Len(sortedValues(cards)) = 2
  /\ {countOfValue(cards, sortedValues(cards)[k]) : k \in 1..2} = {2, 3}

identifyHandType(cards) ==
  IF Len(cards) = 0 THEN NULL
  ELSE IF Len(cards) = 1 THEN SINGLE
  ELSE LET allSame == \A i \in 1..Len(cards) :
                         cardsAreIdentical(cards[i], cards[1])
       IN IF allSame /\ Len(cards) \in {2, 3}
          THEN IF typeOf(cards[1]) # NUMBER THEN NULL
               ELSE IF Len(cards) = 2 THEN PAIR ELSE TRIPLE
          ELSE IF allSame /\ Len(cards) >= 4 THEN BOMB
          ELSE IF Len(cards) = 5 /\ isFullHouse(cards) THEN FULL_HOUSE
          ELSE IF Len(cards) >= 5 /\ isStraight(cards) THEN STRAIGHT
          ELSE IF Len(cards) >= 6 /\ Len(cards) % 2 = 0
                  /\ isConsecutivePairs(cards) THEN CONSECUTIVE_PAIRS
          ELSE IF Len(cards) >= 6 /\ Len(cards) % 3 = 0
                  /\ isAirplane(cards) THEN AIRPLANE
          ELSE NULL

\* this.currentColor ?? (last.color !== WILD ? last.color : null)
activeColorOver(g, last) ==
  IF g.currentColor # NULL THEN g.currentColor
  ELSE IF colorOf(last) # WILDCOLOR THEN colorOf(last) ELSE NULL

isValidSinglePlay(g, played, last) ==
  IF typeOf(played) \in {WILD, WILD_DRAW_FOUR} THEN TRUE
  ELSE IF typeOf(last) \in {WILD, WILD_DRAW_FOUR}
       THEN activeColorOver(g, last) # NULL
            /\ colorOf(played) = activeColorOver(g, last)
  ELSE IF activeColorOver(g, last) # NULL
          /\ colorOf(played) = activeColorOver(g, last) THEN TRUE
  ELSE IF typeOf(last) = NUMBER
       THEN typeOf(played) = NUMBER /\ valueOf(played) = valueOf(last)
  ELSE typeOf(played) = typeOf(last)

isValidGroupPlay(g, played, last) ==
  IF typeOf(played) \in {WILD, WILD_DRAW_FOUR} THEN TRUE
  ELSE IF activeColorOver(g, last) = NULL THEN FALSE
  ELSE colorOf(played) = activeColorOver(g, last)

compareGroups(g, played, last) == isValidGroupPlay(g, played[1], last[1])

\* faulty variant of compareSequences: a longer sequence is accepted too
compareSequencesAnyLength(played, last) == Len(played) >= Len(last)

compareSequences(played, last) == Len(played) = Len(last)

compareBombs(played, last) ==
  IF Len(played) # Len(last) THEN Len(played) > Len(last)
  ELSE getCardPower(played[1]) > getCardPower(last[1])

isValidPlay(g, playedCards, lastCards, handType) ==
  IF ~g.hasActiveRound \/ Len(lastCards) = 0 THEN TRUE
  ELSE IF handType = BOMB
       THEN IF g.lastPlayedHandType # BOMB THEN TRUE
            ELSE compareBombs(playedCards, lastCards)
  ELSE IF g.lastPlayedHandType = NULL THEN TRUE
  ELSE IF g.lastPlayedHandType \in {SINGLE, PAIR, TRIPLE}
       THEN LET activeColor == activeColorOver(g, lastCards[1])
                allMatchActiveColor ==
                  /\ activeColor # NULL
                  /\ Len(playedCards) > 0
                  /\ \A i \in 1..Len(playedCards) :
                        /\ colorOf(playedCards[i]) # WILDCOLOR
                        /\ colorOf(playedCards[i]) = activeColor
            IN CASE handType = SINGLE ->
                      isValidSinglePlay(g, playedCards[1], lastCards[1])
                 [] handType \in {PAIR, TRIPLE} ->
                      compareGroups(g, playedCards, lastCards)
                 [] handType \in {FULL_HOUSE, STRAIGHT, CONSECUTIVE_PAIRS,
                                  AIRPLANE} -> allMatchActiveColor
                 [] OTHER -> FALSE
  ELSE IF g.lastPlayedHandType # handType THEN FALSE
  ELSE CASE handType = FULL_HOUSE -> Len(playedCards) = Len(lastCards)
         [] handType \in {STRAIGHT, CONSECUTIVE_PAIRS, AIRPLANE} ->
              compareSequences(playedCards, lastCards)
         [] OTHER -> FALSE

\* parseSelectedColor on the strings a client sends: "" (absent), an English
\* colour name in any case, a raw CardColor value, or anything else
parseSelectedColor(selectedColor) ==
  CASE selectedColor = "" -> NULL
    [] selectedColor \in {"RED", "red"} -> RED
    [] selectedColor \in {"YELLOW", "yellow"} -> YELLOW
    [] selectedColor \in {RED, YELLOW, WILDCOLOR} -> selectedColor
    [] OTHER -> NULL

(***************************************************************************)
(* Action handlers.  i is the 0-based index of the acting player.          *)
(***************************************************************************)
\* lines 484-487: without a claim candidate the effect resolves at once
resolveIfNoClaim(g, sh) ==
  IF Len(g.claimQueue) = 0 THEN resolvePendingEffectNoClaim(g, sh) ELSE g

\* faulty variant of finishPlay: the effect of every card of a multi-card
\* play is applied
finishPlayEveryCard(g, playerId, cards, handType, chosenColor, sh) ==
  IF handType = SINGLE
  THEN resolveIfNoClaim(
         findPotentialActions(
           [g EXCEPT !.pendingEffect =
              [card |-> cards[1], playedById |-> playerId,
               chosenColor |-> chosenColor]],
           cards[1], playerId, sh),
         sh)
  ELSE nextTurn(applyCardEffects(g, cards, chosenColor), sh)

\* lines 479-493, on the state after onPlayerHandChanged
finishPlay(g, playerId, cards, handType, chosenColor, sh) ==
  IF handType = SINGLE
  THEN resolveIfNoClaim(
         findPotentialActions(
           [g EXCEPT !.pendingEffect =
              [card |-> cards[1], playedById |-> playerId,
               chosenColor |-> chosenColor]],
           cards[1], playerId, sh),
         sh)
  ELSE nextTurn(applyCardEffects(g, <<cards[1]>>, chosenColor), sh)

\* lines 473-479: an emptied hand ends the game
checkWin(g, i, cards, handType, chosenColor, sh) ==
  IF Len(PlayerAt(g, i).hand) = 0 THEN endGame(g)
  ELSE finishPlay(onPlayerHandChanged(g, i), PlayerAt(g, i).id, cards,
                  handType, chosenColor, sh)

\* lines 445-462: a bomb overrides the pending chain; the colour is pinned
settleChainAndColor(g, cards, handType) ==
  [g EXCEPT
     !.pendingDrawCount = IF @ > 0 /\ handType = BOMB THEN 0 ELSE @,
     !.pendingDrawType =
        IF g.pendingDrawCount > 0 /\ handType = BOMB THEN NULL ELSE @,
     !.currentColor =
        IF handType = SINGLE THEN @
        ELSE IF handType \in {STRAIGHT, CONSECUTIVE_PAIRS, AIRPLANE,
                              FULL_HOUSE} THEN NULL
        ELSE IF Len(cards) > 0 /\ colorOf(cards[1]) # WILDCOLOR
             THEN colorOf(cards[1])
        ELSE @]

\* lines 437-443
recordPlay(g, i, cards, handType) ==
  [g EXCEPT
     !.players[i + 1].hand = removeCardsFromHand(@, cards).hand,
     !.lastPlayedHand = cards,
     !.lastPlayedHandType = handType,
     !.lastPlayedBy = PlayerAt(g, i).id,
     !.discardPile = Append(@, cards),
     !.hasActiveRound = TRUE,
     !.passCount = 0]

\* handlePlayCards from the accepted play on (line 437 to the end)
acceptPlay(g, i, cards, handType, chosenColor, sh) ==
  checkWin(settleChainAndColor(recordPlay(g, i, cards, handType), cards,
                               handType),
           i, cards, handType, chosenColor, sh)

\* the response a pending +2/+4 chain admits (lines 407-416)
\* faulty variant of isDrawResponse: a DRAW_TWO answers either penalty type
isDrawResponseAnyDraw(g, cards, handType) ==
  /\ handType = SINGLE
  /\ Len(cards) = 1
  /\ typeOf(cards[1]) \in {DRAW_TWO, WILD_DRAW_FOUR}

isDrawResponse(g, cards, handType) ==
  /\ handType = SINGLE
  /\ Len(cards) = 1
  /\ IF g.pendingDrawType = WILD_DRAW_FOUR
     THEN typeOf(cards[1]) = WILD_DRAW_FOUR
     ELSE typeOf(cards[1]) \in {DRAW_TWO, WILD_DRAW_FOUR}

\* the validation of handlePlayCards (lines 346-435): "ok", or the branch
\* that answers ACTION_VALIDATION isValid: false
playVerdict(g, i, cards, handType, chosenColor) ==
  IF PlayerAt(g, g.currentPlayerIndex).id # PlayerAt(g, i).id
  THEN "not_your_turn"
  ELSE IF PlayerAt(g, i).isSkipped THEN "skipped"
  ELSE IF ~hasCards(PlayerAt(g, i).hand, cards) THEN "missing_cards"
  ELSE IF handType = NULL THEN "invalid_combination"
  ELSE IF (\E k \in 1..Len(cards) :
              typeOf(cards[k]) \in {WILD, WILD_DRAW_FOUR})
          /\ chosenColor = NULL THEN "color_required"
  ELSE IF g.pendingDrawCount > 0 /\ handType # BOMB
          /\ ~isDrawResponse(g, cards, handType) THEN "must_answer_draw"
  ELSE IF g.pendingDrawCount = 0
          /\ ~isValidPlay(g, cards, g.lastPlayedHand, handType)
  THEN "invalid_play"
  ELSE "ok"

\* faulty variant of playCardsAs: the cards leave the hand before the rules
\* of the play are checked, so a play the rules reject keeps them removed
playCardsRemovingFirst(g, i, cards, handType, chosenColor, sh) ==
  IF playVerdict(g, i, cards, handType, chosenColor) = "ok"
  THEN acceptPlay(g, i, cards, handType, chosenColor, sh)
  ELSE IF playVerdict(g, i, cards, handType, chosenColor)
            \in {"must_answer_draw", "invalid_play"}
       THEN [g EXCEPT !.players[i + 1].hand =
                         removeCardsFromHand(@, cards).hand]
  ELSE g

\* handlePlayCards once the hand type and the chosen colour are computed
playCardsAs(g, i, cards, handType, chosenColor, sh) ==
  IF playVerdict(g, i, cards, handType, chosenColor) = "ok"
  THEN acceptPlay(g, i, cards, handType, chosenColor, sh)
  ELSE IF playVerdict(g, i, cards, handType, chosenColor) = "skipped"
       THEN nextTurn([g EXCEPT !.players[i + 1].isSkipped = FALSE], sh)
  ELSE g

handlePlayCards(g, i, cards, selectedColor, sh) ==
  playCardsAs(g, i, cards, identifyHandType(cards),
              parseSelectedColor(selectedColor), sh)

\* removes the card's latest occurrence from the discard history and drops
\* the group it empties
RECURSIVE removeFromGroups(_, _, _)
removeFromGroups(pile, k, cardId) ==
  IF k = 0 THEN pile
  ELSE LET idx == FirstIndex(pile[k], LAMBDA c : c = cardId)
       IN IF idx = 0 THEN removeFromGroups(pile, k - 1, cardId)
          ELSE IF Len(pile[k]) = 1 THEN RemoveAt(pile, k)
          ELSE [pile EXCEPT ![k] = RemoveAt(@, idx)]

removeCardFromDiscardPile(g, cardId) ==
  [g EXCEPT !.discardPile = removeFromGroups(@, Len(@), cardId)]

\* faulty variant of startNewRoundWithLeader: the active colour survives
startNewRoundKeepingColor(g, leaderId) ==
  [g EXCEPT !.hasActiveRound = FALSE, !.passCount = 0,
            !.lastPlayedHand = <<>>, !.lastPlayedHandType = NULL,
            !.lastPlayedBy = 0,
            !.pendingDrawCount = 0, !.pendingDrawType = NULL,
            !.pendingEffect = NoEffect,
            !.currentPlayerIndex =
               IF findIndexById(g, leaderId) >= 0
               THEN findIndexById(g, leaderId) ELSE @]

\* faulty variant of startNewRoundWithLeader: the hand type of the round
\* that ended stays
startNewRoundKeepingHandType(g, leaderId) ==
  [g EXCEPT !.hasActiveRound = FALSE, !.passCount = 0,
            !.lastPlayedHand = <<>>,
            !.lastPlayedBy = 0, !.currentColor = NULL,
            !.pendingDrawCount = 0, !.pendingDrawType = NULL,
            !.pendingEffect = NoEffect,
            !.currentPlayerIndex =
               IF findIndexById(g, leaderId) >= 0
               THEN findIndexById(g, leaderId) ELSE @]

\* startNewRoundWithLeader, lines 614-640
startNewRoundWithLeader(g, leaderId) ==
  [g EXCEPT !.hasActiveRound = FALSE, !.passCount = 0,
            !.lastPlayedHand = <<>>, !.lastPlayedHandType = NULL,
            !.lastPlayedBy = 0, !.currentColor = NULL,
            !.pendingDrawCount = 0, !.pendingDrawType = NULL,
            !.pendingEffect = NoEffect,
            !.currentPlayerIndex =
               IF findIndexById(g, leaderId) >= 0
               THEN findIndexById(g, leaderId) ELSE @]

matchesById(candidate, selected) ==
  /\ Len(candidate) = Len(selected)
  /\ \A k \in 1..Len(candidate) : candidate[k] \in Range(selected)

\* the greedy matching of matchesByIdentity: each candidate card takes the
\* first selected card not yet used that is identical to it
RECURSIVE identityMatch(_, _)
identityMatch(candidate, unused) ==
  IF candidate = <<>> THEN TRUE
  ELSE LET k == FirstIndex(unused,
                           LAMBDA x : cardsAreIdentical(Head(candidate), x))
       IN IF k = 0 THEN FALSE
          ELSE identityMatch(Tail(candidate), RemoveAt(unused, k))

matchesByIdentity(candidate, selected) ==
  Len(candidate) = Len(selected) /\ identityMatch(candidate, selected)

\* [...cards, target].sort by numeric value (stable)
RECURSIVE insertByValue(_, _)
insertByValue(s, c) ==
  IF s = <<>> THEN <<c>>
  ELSE IF valueOf(c) < valueOf(Head(s)) THEN <<c>> \o s
       ELSE <<Head(s)>> \o insertByValue(Tail(s), c)

RECURSIVE sortByValue(_)
sortByValue(s) ==
  IF s = <<>> THEN <<>>
  ELSE insertByValue(sortByValue(SubSeq(s, 1, Len(s) - 1)), s[Len(s)])

\* the CHI candidate handleChi selects for the cards the client sent; <<>>
\* when the selection is rejected
selectChiCandidate(options, provided) ==
  IF Len(provided) = 0
  THEN IF Len(options) = 1 THEN <<options[1]>> ELSE <<>>
  ELSE LET byId == FirstIndex(options,
                              LAMBDA a : matchesById(a.cards, provided))
           byIdentity == FirstIndex(options,
                              LAMBDA a : matchesByIdentity(a.cards, provided))
       IN IF byId # 0 THEN <<options[byId]>>
          ELSE IF byIdentity # 0 THEN <<options[byIdentity]>>
          ELSE <<>>

\* faulty variant of the claim-state reset: the target card stays in the
\* discard pile
closeClaimKeepingDiscard(g, targetCard) ==
  [g EXCEPT !.pendingActions = <<>>, !.pendingEffect = NoEffect,
            !.claimQueue = <<>>, !.claimQueueIndex = 0]

\* the tail the three claim handlers share: clear the claim state, take the
\* target out of the discard history
closeClaim(g, targetCard) ==
  removeCardFromDiscardPile(
    [g EXCEPT !.pendingActions = <<>>, !.pendingEffect = NoEffect,
              !.claimQueue = <<>>, !.claimQueueIndex = 0],
    targetCard)

handleChi(g, i, cards) ==
  LET player == PlayerAt(g, i)
      options == Filter(g.pendingActions,
                        LAMBDA a : a.playerId = player.id /\ a.type = "CHI")
      g1 == [g EXCEPT !.actionTimeout = FALSE]
      selection == selectChiCandidate(options, cards)
  IN IF Len(options) = 0 THEN g
     ELSE IF selection = <<>> THEN g1
     ELSE LET chiCandidate == selection[1]
              removed == removeCardsFromHand(player.hand, chiCandidate.cards)
              g2 == [g1 EXCEPT !.players[i + 1].hand = removed.hand]
          IN IF ~hasCards(player.hand, chiCandidate.cards) THEN g1
             ELSE IF ~removed.ok THEN g2
             ELSE onPlayerHandChanged(
                    startNewRoundWithLeader(
                      closeClaim(
                        [g2 EXCEPT !.players[i + 1].meldedCards =
                           Append(@, sortByValue(
                              Append(chiCandidate.cards,
                                     chiCandidate.targetCard)))],
                        chiCandidate.targetCard),
                      player.id),
                    i)

\* "for (const p of this.players) if (p.id !== player.id) draw(p, count)"
RECURSIVE drawForOthers(_, _, _, _, _)
drawForOthers(g, k, exceptId, count, sh) ==
  IF k >= NumPlayers(g) THEN g
  ELSE drawForOthers(
         IF PlayerAt(g, k).id # exceptId
         THEN drawCardsForPlayer(g, k, count, sh) ELSE g,
         k + 1, exceptId, count, sh)

\* faulty variant of claimPenalty: the claimant draws the penalty too
claimPenaltyForEveryone(g, claimantId, targetCard, sh) ==
  IF typeOf(targetCard) = DRAW_TWO
  THEN drawForOthers(g, 0, 0, 2, sh)
  ELSE IF typeOf(targetCard) = WILD_DRAW_FOUR
       THEN drawForOthers(g, 0, 0, 4, sh)
  ELSE g

\* the +2 / +4 penalty a PENG or GANG of such a card hands out
claimPenalty(g, claimantId, targetCard, sh) ==
  IF typeOf(targetCard) = DRAW_TWO
  THEN drawForOthers(g, 0, claimantId, 2, sh)
  ELSE IF typeOf(targetCard) = WILD_DRAW_FOUR
       THEN drawForOthers(g, 0, claimantId, 4, sh)
  ELSE g

handlePeng(g, i, sh) ==
  LET player == PlayerAt(g, i)
      k == FirstIndex(g.pendingActions,
                      LAMBDA a : a.playerId = player.id /\ a.type = "PENG")
      action == g.pendingActions[k]
      g1 == [g EXCEPT !.actionTimeout = FALSE]
      removed == removeCardsFromHand(player.hand, action.cards)
      g2 == [g1 EXCEPT !.players[i + 1].hand = removed.hand]
  IN IF k = 0 THEN g
     ELSE IF ~hasCards(player.hand, action.cards) THEN g1
     ELSE IF ~removed.ok THEN g2
     ELSE onPlayerHandChanged(
            startNewRoundWithLeader(
              closeClaim(
                claimPenalty(
                  [g2 EXCEPT !.players[i + 1].meldedCards =
                     Append(@, Append(action.cards, action.targetCard))],
                  player.id, action.targetCard, sh),
                action.targetCard),
              player.id),
            i)

handleGang(g, i, sh) ==
  LET player == PlayerAt(g, i)
      k == FirstIndex(g.pendingActions,
                      LAMBDA a : a.playerId = player.id /\ a.type = "GANG")
      action == g.pendingActions[k]
      g1 == [g EXCEPT !.actionTimeout = FALSE]
      removed == removeCardsFromHand(player.hand, action.cards)
      g2 == [g1 EXCEPT !.players[i + 1].hand = removed.hand]
  IN IF k = 0 THEN g
     ELSE IF ~hasCards(player.hand, action.cards) THEN g1
     ELSE IF ~removed.ok THEN g2
     ELSE startNewRoundWithLeader(
            drawCardsForPlayer(
              closeClaim(
                claimPenalty(
                  [g2 EXCEPT !.players[i + 1].meldedCards =
                     Append(@, Append(action.cards, action.targetCard))],
                  player.id, action.targetCard, sh),
                action.targetCard),
              i, 1, sh),
            player.id)

\* "accept the penalty": the branch handleDrawCard and handlePass share
acceptPenalty(g, i, sh) ==
  nextTurn(drawCardsForPlayer(
             [g EXCEPT !.pendingDrawCount = 0, !.pendingDrawType = NULL],
             i, g.pendingDrawCount, sh), sh)

handleDrawCard(g, i, sh) ==
  IF PlayerAt(g, g.currentPlayerIndex).id # PlayerAt(g, i).id THEN g
  ELSE IF g.pendingDrawCount > 0 THEN acceptPenalty(g, i, sh)
  ELSE nextTurn(drawCardsForPlayer(g, i, 1, sh), sh)

\* faulty variant of handlePass: a pass in a SINGLE, PAIR or TRIPLE round is
\* counted like a pass in a combination round
handlePassCountingAll(g, i, sh) ==
  IF PlayerAt(g, g.currentPlayerIndex).id # PlayerAt(g, i).id THEN g
  ELSE IF PlayerAt(g, i).isSkipped
       THEN nextTurn([g EXCEPT !.players[i + 1].isSkipped = FALSE], sh)
  ELSE IF g.pendingDrawCount > 0 THEN acceptPenalty(g, i, sh)
  ELSE LET g1 == drawCardsForPlayer(g, i, 1, sh)
           g2 == [g1 EXCEPT !.passCount = @ + 1]
       IN IF g2.passCount >= NumPlayers(g2) - 1 /\ g2.lastPlayedBy # 0
          THEN startNewRoundWithLeader(g2, g2.lastPlayedBy)
          ELSE nextTurn(g2, sh)

handlePass(g, i, sh) ==
  IF PlayerAt(g, g.currentPlayerIndex).id # PlayerAt(g, i).id THEN g
  ELSE IF PlayerAt(g, i).isSkipped
       THEN nextTurn([g EXCEPT !.players[i + 1].isSkipped = FALSE], sh)
  ELSE IF g.pendingDrawCount > 0 THEN acceptPenalty(g, i, sh)
  ELSE LET g1 == drawCardsForPlayer(g, i, 1, sh)
           g2 == [g1 EXCEPT !.passCount = @ + 1]
       IN IF g1.hasActiveRound
             /\ g1.lastPlayedHandType \in {SINGLE, PAIR, TRIPLE}
          THEN nextTurn(g1, sh)
          ELSE IF g2.passCount >= NumPlayers(g2) - 1 /\ g2.lastPlayedBy # 0
               THEN startNewRoundWithLeader(g2, g2.lastPlayedBy)
          ELSE nextTurn(g2, sh)

handleDeclareUno(g, i) ==
  LET player == PlayerAt(g, i)
  IN IF Len(player.hand) # 1 THEN g
     ELSE IF player.hasCalledUno THEN g
     ELSE clearUnoTimer([g EXCEPT !.players[i + 1].hasCalledUno = TRUE],
                        player.id)

ActionTypes ==
  {"PLAY_CARDS", "DRAW_CARD", "CHI", "PENG", "GANG", "DECLARE_UNO", "PASS"}

ClaimTypes == {"CHI", "PENG", "GANG"}

PlayerAction(t, pid, cs, color) ==
  [type |-> t, playerId |-> pid, cards |-> cs, selectedColor |-> color]

\* faulty variant of dispatchRejects: the claim window only screens claim
\* actions, a play, draw or pass goes through to its handler
dispatchRejectsClaimsOnly(g, action) ==
  \/ findIndexById(g, action.playerId) < 0
  \/ /\ isClaimWindowActive(g)
     /\ action.type \in ClaimTypes
     /\ \/ getCurrentClaimPlayerId(g) = 0
        \/ action.playerId # getCurrentClaimPlayerId(g)

\* lines 295-318: the sender is unknown, or a claim window is open and the
\* action is not a claim of the prompted player
dispatchRejects(g, action) ==
  \/ findIndexById(g, action.playerId) < 0
  \/ /\ isClaimWindowActive(g)
     /\ \/ getCurrentClaimPlayerId(g) = 0
        \/ action.playerId # getCurrentClaimPlayerId(g)
        \/ action.type \notin ClaimTypes

\* the switch of handlePlayerAction for the sender at index i
dispatch(g, i, action, sh) ==
  CASE action.type = "PLAY_CARDS" ->
         handlePlayCards(g, i, action.cards, action.selectedColor, sh)
    [] action.type = "DRAW_CARD" -> handleDrawCard(g, i, sh)
    [] action.type = "CHI" -> handleChi(g, i, action.cards)
    [] action.type = "PENG" -> handlePeng(g, i, sh)
    [] action.type = "GANG" -> handleGang(g, i, sh)
    [] action.type = "DECLARE_UNO" -> handleDeclareUno(g, i)
    [] action.type = "PASS" -> handlePass(g, i, sh)

handlePlayerAction(g, action, sh) ==
  IF dispatchRejects(g, action) THEN g
  ELSE dispatch(g, findIndexById(g, action.playerId), action, sh)

(***************************************************************************)
(* Room lifecycle and timers.                                              *)
(***************************************************************************)
\* the room limit of addPlayer
MaxRoomPlayers == 10

addPlayer(g, id) ==
  IF g.gamePhase # WAITING THEN g
  ELSE IF NumPlayers(g) >= MaxRoomPlayers THEN g
  ELSE IF HasPlayer(g, id) THEN g
  ELSE [g EXCEPT !.players = Append(@, createPlayer(id))]

\* faulty variant of removePlayer: an index past the end is not reset
removePlayerNoWrap(g, playerId) ==
  LET g0 == clearUnoTimer(g, playerId)
      index == findIndexById(g0, playerId)
      g1 == [g0 EXCEPT !.players = RemoveAt(@, index + 1)]
      g3 == IF g1.currentPlayerIndex > index
            THEN [g1 EXCEPT !.currentPlayerIndex = @ - 1] ELSE g1
  IN IF index = -1 THEN g0
     ELSE IF g3.gamePhase = PLAYING /\ NumPlayers(g3) = 1 THEN endGame(g3)
     ELSE IF g3.gamePhase = PLAYING /\ NumPlayers(g3) = 0
          THEN [g3 EXCEPT !.gamePhase = ENDED]
     ELSE g3

\* faulty variant of removePlayer: the turn index is not moved when an earlier
\* seat leaves
removePlayerNoShift(g, playerId) ==
  LET g0 == clearUnoTimer(g, playerId)
      index == findIndexById(g0, playerId)
      g1 == [g0 EXCEPT !.players = RemoveAt(@, index + 1)]
      g3 == IF g1.currentPlayerIndex >= NumPlayers(g1)
            THEN [g1 EXCEPT !.currentPlayerIndex = 0] ELSE g1
  IN IF index = -1 THEN g0
     ELSE IF g3.gamePhase = PLAYING /\ NumPlayers(g3) = 1 THEN endGame(g3)
     ELSE IF g3.gamePhase = PLAYING /\ NumPlayers(g3) = 0
          THEN [g3 EXCEPT !.gamePhase = ENDED]
     ELSE g3

removePlayer(g, playerId) ==
  LET g0 == clearUnoTimer(g, playerId)
      index == findIndexById(g0, playerId)
      g1 == [g0 EXCEPT !.players = RemoveAt(@, index + 1)]
      g2 == IF g1.currentPlayerIndex > index
            THEN [g1 EXCEPT !.currentPlayerIndex = @ - 1] ELSE g1
      g3 == IF g2.currentPlayerIndex >= NumPlayers(g2)
            THEN [g2 EXCEPT !.currentPlayerIndex = 0] ELSE g2
  IN IF index = -1 THEN g0
     ELSE IF g3.gamePhase = PLAYING /\ NumPlayers(g3) = 1 THEN endGame(g3)
     ELSE IF g3.gamePhase = PLAYING /\ NumPlayers(g3) = 0
          THEN [g3 EXCEPT !.gamePhase = ENDED]
     ELSE g3

\* startGame: deck.splice(0, 13) for each player in seat order
RECURSIVE dealAll(_, _)
dealAll(g, k) ==
  IF k >= NumPlayers(g) THEN g
  ELSE dealAll([g EXCEPT
                  !.players[k + 1].hand =
                     @ \o SubSeq(g.deck, 1,
                                 IF Len(g.deck) < DealCount THEN Len(g.deck)
                                 ELSE DealCount),
                  !.deck = SubSeq(@, DealCount + 1, Len(@))],
               k + 1)

\* first is the outcome of Math.floor(Math.random() * players.length)
startGame(g, first) ==
  IF NumPlayers(g) < 2 THEN g
  ELSE IF g.gamePhase # WAITING THEN g
  ELSE [dealAll(g, 0) EXCEPT !.currentPlayerIndex = first,
                             !.gamePhase = PLAYING,
                             !.hasActiveRound = FALSE]

\* a callback that applies the penalty without reading the player's state
unoTimerCallbackUnchecked(g, playerId, sh) ==
  LET g1 == [g EXCEPT !.unoTimers = @ \ {playerId}]
      i == findIndexById(g1, playerId)
  IN IF g1.gamePhase # PLAYING THEN g1
     ELSE IF i < 0 THEN g1
     ELSE drawCardsForPlayer(g1, i, 2, sh)

\* the callback of the timer onPlayerHandChanged schedules for playerId
unoTimerCallback(g, playerId, sh) ==
  LET g1 == [g EXCEPT !.unoTimers = @ \ {playerId}]
      i == findIndexById(g1, playerId)
  IN IF g1.gamePhase # PLAYING THEN g1
     ELSE IF i < 0 THEN g1
     ELSE IF ~PlayerAt(g1, i).hasCalledUno /\ Len(PlayerAt(g1, i).hand) = 1
          THEN drawCardsForPlayer(g1, i, 2, sh)
     ELSE g1

(***************************************************************************)
(* The state machine.                                                      *)
(***************************************************************************)
\* outcomes of shuffleDeck(createDeck()) in the constructor (card ids, the
\* first DealCount go to seat 0, draws pop from the end)
InitialDecks ==
  { <<1, 9, 11, 6, 7, 5, 2, 3, 4, 16, 17, 8, 10, 12, 13, 14, 15>>,
    <<11, 1, 10, 12, 13, 8, 15, 6, 9, 16, 17, 2, 3, 4, 5, 7, 14>>,
    <<1, 9, 14, 16, 17, 5, 2, 3, 4, 6, 7, 8, 10, 11, 12, 13, 15>> }

\* two more outcomes of the shuffle: one deals seat 0 a +2 and two +4 and
\* seat 1 a +4; the other deals seat 0 a red 5 and seat 1 a red 3 and a
\* yellow 5, with nothing seat 1 could claim the red 5 with
RedealtDecks ==
  { <<11, 15, 18, 19, 2, 6, 1, 3, 4, 5, 7, 8, 9, 10, 12, 13, 14, 16, 17>>,
    <<1, 9, 10, 5, 8, 12, 2, 3, 4, 6, 7, 11, 13, 14, 15, 16, 17, 18, 19>> }

\* the strings a client sends as selectedColor
SelectedColorInputs == {"", "yellow", WILDCOLOR}

handOf(g, id) == IF HasPlayer(g, id) THEN getPlayerById(g, id).hand ELSE <<>>

\* the k-th smallest element of a set of numbers
KthOf(S, k) == CHOOSE x \in S : Cardinality({y \in S : y <= x}) = k

\* the cards of hand at the positions S, in hand order
Pick(hand, S) == [k \in 1..Cardinality(S) |-> hand[KthOf(S, k)]]

\* a card the player does not hold: the next card of the draw pile
ForeignCards(g) == IF Len(g.deck) > 0 THEN {g.deck[Len(g.deck)]} ELSE {}

\* card lists a client submits with PLAY_CARDS: nothing, one card of its hand
\* or one it does not hold, any two cards of its hand (also the same card
\* twice), and longer selections from its hand
PlayInputs(hand) ==
  {<<>>} \cup {<<c>> : c \in Range(hand) \cup ForeignCards(Game)}
  \cup {<<hand[a], hand[b]>> : a, b \in 1..Len(hand)}
  \cup {Pick(hand, S) : S \in {T \in SUBSET (1..Len(hand)) :
                                  Cardinality(T) \in 3..MaxPlayLen}}

\* card lists a client submits with CHI: nothing, or two cards of its hand
ChiInputs(hand) ==
  {<<>>} \cup {Pick(hand, S) : S \in {T \in SUBSET (1..Len(hand)) :
                                         Cardinality(T) = 2}}

Init ==
  /\ \E d \in InitialDecks :
       /\ players = <<>>
       /\ deck = d
  /\ discardPile = <<>>
  /\ currentPlayerIndex = 0
  /\ turnDirection = 1
  /\ gamePhase = WAITING
  /\ lastPlayedHand = <<>>
  /\ lastPlayedHandType = NULL
  /\ lastPlayedBy = 0
  /\ currentColor = NULL
  /\ pendingDrawCount = 0
  /\ pendingDrawType = NULL
  /\ pendingEffect = NoEffect
  /\ pendingActions = <<>>
  /\ actionTimeout = FALSE
  /\ claimQueue = <<>>
  /\ claimQueueIndex = 0
  /\ hasActiveRound = FALSE
  /\ passCount = 0
  /\ unoTimers = {}
  /\ steps = 0

\* the state after construction with one of the decks of RedealtDecks
InitRedealt ==
  /\ \E d \in RedealtDecks :
       /\ players = <<>>
       /\ deck = d
  /\ discardPile = <<>>
  /\ currentPlayerIndex = 0
  /\ turnDirection = 1
  /\ gamePhase = WAITING
  /\ lastPlayedHand = <<>>
  /\ lastPlayedHandType = NULL
  /\ lastPlayedBy = 0
  /\ currentColor = NULL
  /\ pendingDrawCount = 0
  /\ pendingDrawType = NULL
  /\ pendingEffect = NoEffect
  /\ pendingActions = <<>>
  /\ actionTimeout = FALSE
  /\ claimQueue = <<>>
  /\ claimQueueIndex = 0
  /\ hasActiveRound = FALSE
  /\ passCount = 0
  /\ unoTimers = {}
  /\ steps = 0

\* the step leads to the game state g2
Becomes(g2) ==
  /\ players' = g2.players
  /\ deck' = g2.deck
  /\ discardPile' = g2.discardPile
  /\ currentPlayerIndex' = g2.currentPlayerIndex
  /\ turnDirection' = g2.turnDirection
  /\ gamePhase' = g2.gamePhase
  /\ lastPlayedHand' = g2.lastPlayedHand
  /\ lastPlayedHandType' = g2.lastPlayedHandType
  /\ lastPlayedBy' = g2.lastPlayedBy
  /\ currentColor' = g2.currentColor
  /\ pendingDrawCount' = g2.pendingDrawCount
  /\ pendingDrawType' = g2.pendingDrawType
  /\ pendingEffect' = g2.pendingEffect
  /\ pendingActions' = g2.pendingActions
  /\ actionTimeout' = g2.actionTimeout
  /\ claimQueue' = g2.claimQueue
  /\ claimQueueIndex' = g2.claimQueueIndex
  /\ hasActiveRound' = g2.hasActiveRound
  /\ passCount' = g2.passCount
  /\ unoTimers' = g2.unoTimers

\* an event changes the state to g2; events that change nothing are not
\* counted against the exploration bound
Event(g2) ==
  /\ steps < MaxSteps
  /\ Becomes(g2)
  /\ steps' = IF g2 = Game THEN steps ELSE steps + 1

AddPlayer ==
  \E id \in PlayerIds :
    /\ id <= Len(players) + 1
    /\ Event(addPlayer(Game, id))

RemovePlayer ==
  \E id \in PlayerIds : Event(removePlayer(Game, id))

StartGame ==
  \E first \in 0..(NumPlayerIds - 1) :
    /\ first = 0 \/ first < Len(players)
    /\ Event(startGame(Game, first))

\* a client sends selectedColor with a list that holds a wild card
ColorInputsFor(cards) ==
  IF \E k \in 1..Len(cards) : typeOf(cards[k]) \in {WILD, WILD_DRAW_FOUR}
  THEN SelectedColorInputs ELSE {""}

PlayCards ==
  \E id \in PlayerIds, sh \in ShuffleModes :
    \E cards \in PlayInputs(handOf(Game, id)) :
      \E color \in ColorInputsFor(cards) :
        Event(handlePlayerAction(Game,
                PlayerAction("PLAY_CARDS", id, cards, color), sh))

DrawCard ==
  \E id \in PlayerIds, sh \in ShuffleModes :
    Event(handlePlayerAction(Game, PlayerAction("DRAW_CARD", id, <<>>, ""), sh))

Pass ==
  \E id \in PlayerIds, sh \in ShuffleModes :
    Event(handlePlayerAction(Game, PlayerAction("PASS", id, <<>>, ""), sh))

Chi ==
  \E id \in PlayerIds :
    \E cards \in ChiInputs(handOf(Game, id)) :
      Event(handlePlayerAction(Game, PlayerAction("CHI", id, cards, ""),
                               "keep"))

Peng ==
  \E id \in PlayerIds, sh \in ShuffleModes :
    Event(handlePlayerAction(Game, PlayerAction("PENG", id, <<>>, ""), sh))

Gang ==
  \E id \in PlayerIds, sh \in ShuffleModes :
    Event(handlePlayerAction(Game, PlayerAction("GANG", id, <<>>, ""), sh))

DeclareUno ==
  \E id \in PlayerIds :
    Event(handlePlayerAction(Game, PlayerAction("DECLARE_UNO", id, <<>>, ""),
                             "keep"))

\* the claim-window timer fires
ClaimTimeout ==
  /\ actionTimeout
  /\ \E sh \in ShuffleModes : Event(claimTimeoutCallback(Game, sh))

\* the UNO deadline of a player fires
UnoTimeout ==
  \E id \in unoTimers, sh \in ShuffleModes :
    Event(unoTimerCallback(Game, id, sh))

Next ==
  \/ AddPlayer
  \/ RemovePlayer
  \/ StartGame
  \/ PlayCards
  \/ DrawCard
  \/ Pass
  \/ Chi
  \/ Peng
  \/ Gang
  \/ DeclareUno
  \/ ClaimTimeout
  \/ UnoTimeout

Spec == Init /\ [][Next]_vars

SpecRedealt == InitRedealt /\ [][Next]_vars

\* shuffle outcomes of a deck that is dealt out completely: the draw pile is
\* empty from the deal on, as it is in a long game once every card was drawn.
\* The first deals seat 0 a DRAW_TWO and seat 1 two DRAW_TWO; the second
\* deals three players two red 5 each (seat 2 one of them). The last two
\* leave four cards to draw: seat 0 holds a DRAW_TWO and seat 1 three, seat 0
\* holds a WILD_DRAW_FOUR and seat 1 two. The last deals seat 0 the REVERSE,
\* seat 2 a red 4 and seat 1 a red 3 and a red 5.
ShortDecks ==
  { <<11, 5, 6, 12, 13, 7>>,
    <<4, 16, 5, 1, 2, 6, 3, 7, 8>>,
    <<24, 5, 6, 11, 12, 13, 7, 1, 2, 3>>,
    <<15, 5, 6, 18, 19, 7, 1, 2, 3, 4>>,
    <<10, 2, 3, 5, 1, 28, 6, 29, 30>> }

InitShortDeck ==
  /\ \E d \in ShortDecks :
       /\ players = <<>>
       /\ deck = d
  /\ discardPile = <<>>
  /\ currentPlayerIndex = 0
  /\ turnDirection = 1
  /\ gamePhase = WAITING
  /\ lastPlayedHand = <<>>
  /\ lastPlayedHandType = NULL
  /\ lastPlayedBy = 0
  /\ currentColor = NULL
  /\ pendingDrawCount = 0
  /\ pendingDrawType = NULL
  /\ pendingEffect = NoEffect
  /\ pendingActions = <<>>
  /\ actionTimeout = FALSE
  /\ claimQueue = <<>>
  /\ claimQueueIndex = 0
  /\ hasActiveRound = FALSE
  /\ passCount = 0
  /\ unoTimers = {}
  /\ steps = 0

SpecShortDeck == InitShortDeck /\ [][Next]_vars

\* the longest card list a client submits with PLAY_CARDS in SpecCombo
MaxComboLen == 6

\* the number of state-changing events SpecCombo follows after the deal
ComboSteps == 2

\* states after two joins and startGame, with hands of seven cards: seat 0
\* and seat 1 hold (1) five red 5 and a SKIP against four red 6 and two
\* SKIPs, (2) four DRAW_TWO against four red 3, (3) the red straight 3..7
\* against 4..9 with a yellow 5, (4) the pairs 3-3-4-4-5-5 and a third 5
\* against the triples 6-6-6-7-7-7 and an 8, (5) four SKIP against four
\* REVERSE, (6) four WILD_DRAW_FOUR against four DRAW_TWO
ComboDeals ==
  { [hands |-> << <<1, 2, 3, 4, 16, 5, 9>>, <<7, 20, 21, 22, 23, 34, 8>> >>,
     deck |-> <<6, 10, 17, 28, 29>>],
    [hands |-> << <<11, 12, 13, 24, 1, 6, 9>>, <<5, 25, 26, 27, 8, 7, 10>> >>,
     deck |-> <<2, 3, 14, 28, 29>>],
    [hands |-> << <<5, 6, 1, 7, 28, 2, 9>>, <<31, 8, 20, 32, 29, 30, 21>> >>,
     deck |-> <<3, 4, 10, 16, 17>>],
    [hands |-> << <<5, 25, 6, 31, 1, 2, 3>>, <<7, 20, 21, 28, 32, 33, 29>> >>,
     deck |-> <<4, 8, 9, 10, 16>>],
    [hands |-> << <<9, 23, 34, 35, 1, 5, 6>>, <<10, 36, 37, 38, 7, 8, 20>> >>,
     deck |-> <<2, 3, 14, 28, 29>>],
    [hands |-> << <<15, 18, 19, 39, 1, 5, 6>>, <<11, 12, 13, 24, 7, 8, 20>> >>,
     deck |-> <<2, 3, 14, 28, 29>>] }

InitCombo ==
  /\ \E deal \in ComboDeals, first \in 0..1 :
       /\ players = [k \in 1..2 |->
                       [createPlayer(k) EXCEPT !.hand = deal.hands[k]]]
       /\ deck = deal.deck
       /\ currentPlayerIndex = first
  /\ discardPile = <<>>
  /\ turnDirection = 1
  /\ gamePhase = PLAYING
  /\ lastPlayedHand = <<>>
  /\ lastPlayedHandType = NULL
  /\ lastPlayedBy = 0
  /\ currentColor = NULL
  /\ pendingDrawCount = 0
  /\ pendingDrawType = NULL
  /\ pendingEffect = NoEffect
  /\ pendingActions = <<>>
  /\ actionTimeout = FALSE
  /\ claimQueue = <<>>
  /\ claimQueueIndex = 0
  /\ hasActiveRound = FALSE
  /\ passCount = 0
  /\ unoTimers = {}
  /\ steps = MaxSteps - ComboSteps

\* card lists a client submits with PLAY_CARDS: up to MaxComboLen cards of its
\* hand, in hand order
ComboInputs(hand) ==
  {Pick(hand, S) : S \in {T \in SUBSET (1..Len(hand)) :
                            Cardinality(T) \in 1..MaxComboLen}}

PlayCombo ==
  \E id \in PlayerIds :
    \E cards \in ComboInputs(handOf(Game, id)) :
      \E color \in ColorInputsFor(cards) :
        Event(handlePlayerAction(Game,
                PlayerAction("PLAY_CARDS", id, cards, color), "keep"))

NextCombo ==
  \/ PlayCombo
  \/ DrawCard
  \/ Pass
  \/ Chi
  \/ Peng
  \/ Gang
  \/ DeclareUno
  \/ ClaimTimeout
  \/ UnoTimeout
  \/ RemovePlayer

SpecCombo == InitCombo /\ [][NextCombo]_vars

(***************************************************************************)
(* Properties.                                                             *)
(***************************************************************************)
\* the actions the clients can send in the current state (the inputs of the
\* actions of Next)
ActionInputs ==
  UNION { UNION { { PlayerAction("PLAY_CARDS", id, cards, color) :
                      color \in ColorInputsFor(cards) } :
                  cards \in PlayInputs(handOf(Game, id)) } :
          id \in PlayerIds }
  \cup UNION { { PlayerAction("CHI", id, cards, "") :
                   cards \in ChiInputs(handOf(Game, id)) } :
               id \in PlayerIds }
  \cup { PlayerAction(t, id, <<>>, "") :
           t \in {"PENG", "GANG", "DRAW_CARD", "PASS", "DECLARE_UNO"},
           id \in PlayerIds }

\* the melds of every seat
meldsOf(g) == [k \in 1..Len(g.players) |-> g.players[k].meldedCards]

\* the hands of every seat
handsOf(g) == [k \in 1..Len(g.players) |-> g.players[k].hand]

NoDuplicates(s) == \A a, b \in 1..Len(s) : s[a] = s[b] => a = b

\* C1: whenever the claim queue is non-empty a claim-window timeout is armed.
C1_QueueHasLiveTimeout ==
  Len(claimQueue) > 0 => actionTimeout

\* the PLAY_CARDS action passes the dispatch and the validation of
\* handlePlayCards
PlayAccepted(g, action) ==
  /\ ~dispatchRejects(g, action)
  /\ playVerdict(g, findIndexById(g, action.playerId), action.cards,
                 identifyHandType(action.cards),
                 parseSelectedColor(action.selectedColor)) = "ok"

\* C2: an accepted PLAY_CARDS submitted pairwise distinct card ids, all of
\* them in the actor's hand; the actor's hand shrank by exactly the number of
\* cards submitted and the new discard group holds each id once.
C2_AcceptedPlayTakesEachCardOnce ==
  \A id \in PlayerIds, sh \in ShuffleModes :
    \A cards \in PlayInputs(handOf(Game, id)) :
      \A color \in ColorInputsFor(cards) :
        LET action == PlayerAction("PLAY_CARDS", id, cards, color)
            g2 == handlePlayerAction(Game, action, sh)
        IN PlayAccepted(Game, action) =>
             /\ NoDuplicates(cards)
             /\ Range(cards) \subseteq Range(handOf(Game, id))
             /\ Len(handOf(g2, id)) = Len(handOf(Game, id)) - Len(cards)
             /\ Len(g2.discardPile) > Len(discardPile) =>
                  NoDuplicates(g2.discardPile[Len(g2.discardPile)])

\* the hand, pile, turn and round fields of a game
TableOf(g) ==
  [hands |-> handsOf(g), melds |-> meldsOf(g), deck |-> g.deck,
   discardPile |-> g.discardPile,
   currentPlayerIndex |-> g.currentPlayerIndex,
   turnDirection |-> g.turnDirection,
   lastPlayedHand |-> g.lastPlayedHand,
   lastPlayedHandType |-> g.lastPlayedHandType,
   lastPlayedBy |-> g.lastPlayedBy, currentColor |-> g.currentColor,
   pendingDrawCount |-> g.pendingDrawCount,
   pendingDrawType |-> g.pendingDrawType,
   hasActiveRound |-> g.hasActiveRound, passCount |-> g.passCount]

\* C3: outside the PLAYING phase no player action of any type changes a
\* hand, a pile, the turn or a round field (in WAITING the hands stay empty
\* and the turn does not move; in ENDED nothing changes).
C3_ActionsOnlyWhilePlaying ==
  gamePhase # PLAYING =>
    \A action \in ActionInputs, sh \in ShuffleModes :
      TableOf(handlePlayerAction(Game, action, sh)) = TableOf(Game)

\* C4: while the phase is PLAYING no player holds zero cards.
C4_NoEmptyHandWhilePlaying ==
  gamePhase = PLAYING =>
    \A k \in 1..Len(players) : Len(players[k].hand) > 0

\* C5: a CHI, PENG or GANG action that forms no meld (it is rejected) leaves
\* the whole game state unchanged, the armed claim timeout included.
C5_RejectedClaimChangesNothing ==
  \A action \in ActionInputs, sh \in ShuffleModes :
    action.type \in ClaimTypes =>
      LET g2 == handlePlayerAction(Game, action, sh)
      IN meldsOf(g2) = meldsOf(Game) => g2 = Game

\* C6: a PLAY_CARDS action that is rejected, at the dispatch or by a
\* validation of handlePlayCards, leaves all game state unchanged.
C6_RejectedPlayChangesNothing ==
  \A id \in PlayerIds :
    \A cards \in PlayInputs(handOf(Game, id)) :
      \A color \in ColorInputsFor(cards) :
        ~PlayAccepted(Game, PlayerAction("PLAY_CARDS", id, cards, color)) =>
          \A sh \in ShuffleModes :
            handlePlayerAction(Game,
              PlayerAction("PLAY_CARDS", id, cards, color), sh) = Game

\* a rejection of each kind the validation knows is possible in one state:
\* after a play the player whose turn it is holds a card that does not
\* follow the single card on the table, and another player sends a play
C6_Witness ==
  /\ gamePhase = PLAYING
  /\ hasActiveRound
  /\ lastPlayedHandType = SINGLE
  /\ ~isClaimWindowActive(Game)
  /\ \E a, b \in ActionInputs :
       /\ a.type = "PLAY_CARDS" /\ b.type = "PLAY_CARDS"
       /\ a.playerId = PlayerAt(Game, currentPlayerIndex).id
       /\ b.playerId # a.playerId
       /\ HasPlayer(Game, b.playerId)
       /\ playVerdict(Game, currentPlayerIndex, a.cards,
                      identifyHandType(a.cards),
                      parseSelectedColor(a.selectedColor)) = "invalid_play"
       /\ ~PlayAccepted(Game, b)

\* the player the claim queue cursor points at
cursorPlayerId(g) == g.claimQueue[g.claimQueueIndex + 1].playerId

claimRank(t) == CASE t = "GANG" -> 0 [] t = "PENG" -> 1 [] t = "CHI" -> 2

\* the number of seats from seat from to seat idx in turn order
seatDistance(g, from, idx) ==
  ((idx - from) * g.turnDirection + 2 * NumPlayers(g)) % NumPlayers(g)

countIdentical(hand, card) ==
  Cardinality({k \in 1..Len(hand) : cardsAreIdentical(hand[k], card)})

\* the claim queue of g lists the GANG-eligible seats in turn order from the
\* seat after the one that played, then the PENG-eligible seats in turn
\* order, then at most the next seat for CHI
QueueOrdered(g) ==
  LET n == NumPlayers(g)
      from == findIndexById(g, g.pendingEffect.playedById)
      card == g.pendingEffect.card
      q == g.claimQueue
      typeAt(a) == q[a].actions[1].type
      seatAt(a) == findIndexById(g, q[a].playerId)
      key(a) == claimRank(typeAt(a)) * n + seatDistance(g, from, seatAt(a))
  IN /\ \A a, b \in 1..Len(q) : a < b => key(a) < key(b)
     /\ \A a \in 1..Len(q) :
          /\ seatAt(a) # from
          /\ \A x \in 1..Len(q[a].actions) :
               /\ q[a].actions[x].type = typeAt(a)
               /\ q[a].actions[x].playerId = q[a].playerId
               /\ q[a].actions[x].targetCard = card
          /\ typeAt(a) = "CHI" => seatDistance(g, from, seatAt(a)) = 1
     /\ \A idx \in 0..(n - 1) :
          idx # from =>
            /\ countIdentical(PlayerAt(g, idx).hand, card) >= 3 <=>
                 \E a \in 1..Len(q) : seatAt(a) = idx /\ typeAt(a) = "GANG"
            /\ countIdentical(PlayerAt(g, idx).hand, card) = 2 <=>
                 \E a \in 1..Len(q) : seatAt(a) = idx /\ typeAt(a) = "PENG"

\* C8: the claim queue a SINGLE play builds is ordered GANG, PENG, CHI and in
\* turn order within a type, its first candidate is prompted, and the prompt
\* moves to a later candidate only by the timeout of the candidate before it.
C8_ClaimPromptOrder ==
  [][ /\ (pendingEffect' # NoEffect /\ pendingEffect' # pendingEffect
          /\ Len(claimQueue') > 0) =>
            /\ QueueOrdered(Game)'
            /\ claimQueueIndex' = 0
            /\ pendingActions' = claimQueue'[1].actions
            /\ actionTimeout'
      /\ (pendingEffect # NoEffect /\ pendingEffect' = pendingEffect
          /\ claimQueueIndex' # claimQueueIndex) =>
            /\ actionTimeout
            /\ claimQueue' = claimQueue
            /\ claimQueueIndex' = claimQueueIndex + 1
            /\ claimQueueIndex' < Len(claimQueue)
            /\ pendingActions' = claimQueue[claimQueueIndex' + 1].actions
            /\ actionTimeout'
            /\ \E sh \in ShuffleModes : Becomes(claimTimeoutCallback(Game, sh))
    ]_vars

\* the GANG candidate has timed out and the CHI candidate of the next seat,
\* listed after it, is prompted
C8_Witness ==
  /\ Len(claimQueue) >= 2
  /\ claimQueueIndex = 1
  /\ claimQueue[1].actions[1].type = "GANG"
  /\ claimQueue[2].actions[1].type = "CHI"
  /\ pendingActions = claimQueue[2].actions
  /\ actionTimeout

\* C9: a step in which a player's melds grow (a CHI, PENG or GANG is
\* accepted) makes that player the current player and starts a new round:
\* no active round, no last played hand, type or player, no active colour,
\* no pending effect, an empty claim queue and no claim timeout.
C9_AcceptedClaimStartsRound ==
  [][ \A k \in 1..Len(players) :
        (/\ Len(players') = Len(players)
         /\ players'[k].id = players[k].id
         /\ Len(players'[k].meldedCards) > Len(players[k].meldedCards)) =>
          /\ currentPlayerIndex' = k - 1
          /\ ~hasActiveRound'
          /\ lastPlayedHand' = <<>>
          /\ lastPlayedHandType' = NULL
          /\ lastPlayedBy' = 0
          /\ currentColor' = NULL
          /\ pendingEffect' = NoEffect
          /\ claimQueue' = <<>>
          /\ ~actionTimeout'
    ]_vars

\* a claim was accepted: the claimant leads a new round
C9_Witness ==
  /\ gamePhase = PLAYING
  /\ ~hasActiveRound
  /\ lastPlayedHand = <<>>
  /\ PlayerAt(Game, currentPlayerIndex).meldedCards # <<>>

\* what the claim compares: current player, direction, skip flags, active
\* colour and pending penalty
TurnOutcome(g) ==
  [currentPlayerIndex |-> g.currentPlayerIndex,
   turnDirection |-> g.turnDirection,
   skipped |-> [k \in 1..Len(g.players) |-> g.players[k].isSkipped],
   currentColor |-> g.currentColor,
   pendingDrawCount |-> g.pendingDrawCount,
   pendingDrawType |-> g.pendingDrawType]

\* the state the same play leaves when findPotentialActions finds no
\* candidate, before handlePlayCards resolves the effect (lines 481-487)
noWindow(g) ==
  [g EXCEPT !.pendingActions = <<>>, !.claimQueue = <<>>,
            !.claimQueueIndex = 0, !.actionTimeout = FALSE]

\* C10: a timeout that moves the prompt on changes no turn outcome, and the
\* step that closes the window without a meld leaves the turn outcome the
\* same play produces when nobody is eligible to claim.
C10_TimeoutsResolveLikeNoClaim ==
  [][ /\ (isClaimWindowActive(Game) /\ pendingEffect' = pendingEffect
          /\ claimQueueIndex' # claimQueueIndex) =>
            TurnOutcome(Game)' = TurnOutcome(Game)
      /\ (isClaimWindowActive(Game) /\ pendingEffect' = NoEffect
          /\ meldsOf(Game)' = meldsOf(Game)) =>
            \E sh \in ShuffleModes :
              TurnOutcome(Game)' =
                TurnOutcome(resolvePendingEffectNoClaim(noWindow(Game), sh))
    ]_vars

\* the window of a +2 closed without a meld although a player holds two
\* more +2: the claim timed out and the penalty is pending for the next seat
C10_Witness ==
  /\ gamePhase = PLAYING
  /\ claimQueue = <<>>
  /\ pendingEffect = NoEffect
  /\ lastPlayedHandType = SINGLE
  /\ Len(lastPlayedHand) = 1
  /\ typeOf(lastPlayedHand[1]) = DRAW_TWO
  /\ pendingDrawCount = 2
  /\ \E k \in 1..Len(players) :
       /\ players[k].id # lastPlayedBy
       /\ countIdentical(players[k].hand, lastPlayedHand[1]) >= 2

\* C11: while the phase is PLAYING, between actions a player has a live UNO
\* deadline timer exactly when its hand holds one card and it has not
\* declared UNO.
C11_UnoDeadlineIffOneCardUndeclared ==
  gamePhase = PLAYING =>
    \A k \in 1..Len(players) :
      players[k].id \in unoTimers <=>
        (Len(players[k].hand) = 1 /\ ~players[k].hasCalledUno)

\* the cards a draw can still reach: the deck and the discard pile
drawable(g) == Len(g.deck) + Len(Flat(g.discardPile))

\* C12: when the UNO deadline of a seated player fires during play and the
\* player still holds exactly one card and has not declared, exactly two
\* cards are added to that hand (given two drawable cards) and the deadline
\* is gone, so that it cannot fire again; when the player has declared or
\* holds another number of cards no hand changes; an accepted declaration
\* cancels the deadline.
C12_UnoPenaltyAtDeadline ==
  gamePhase = PLAYING =>
    /\ \A id \in unoTimers, sh \in ShuffleModes :
         HasPlayer(Game, id) =>
           LET g2   == unoTimerCallback(Game, id, sh)
               hand == handOf(Game, id)
           IN IF Len(hand) = 1 /\ ~getPlayerById(Game, id).hasCalledUno
              THEN drawable(Game) >= 2 =>
                     /\ Len(handOf(g2, id)) = 3
                     /\ SubSeq(handOf(g2, id), 1, 1) = hand
                     /\ \A other \in PlayerIds \ {id} :
                          handOf(g2, other) = handOf(Game, other)
                     /\ id \notin g2.unoTimers
              ELSE handsOf(g2) = handsOf(Game)
    /\ \A id \in PlayerIds :
         LET g2 == handlePlayerAction(Game,
                     PlayerAction("DECLARE_UNO", id, <<>>, ""), "keep")
         IN (HasPlayer(g2, id) /\ getPlayerById(g2, id).hasCalledUno) =>
              id \notin g2.unoTimers

\* a deadline is live for a player that holds one card undeclared, two
\* cards are drawable and the deadline's callback gives the player three
C12_Witness ==
  /\ gamePhase = PLAYING
  /\ \E id \in unoTimers :
       /\ HasPlayer(Game, id)
       /\ Len(handOf(Game, id)) = 1
       /\ ~getPlayerById(Game, id).hasCalledUno
       /\ drawable(Game) >= 2
       /\ Len(handOf(unoTimerCallback(Game, id, "keep"), id)) = 3

\* the seat after seat i in the direction of play
seatAfter(g, i) == (i + g.turnDirection + NumPlayers(g)) % NumPlayers(g)

\* the hand at seat i holds no WILD_DRAW_FOUR and no four identical cards
holdsNoAnswerToDrawFour(g, i) ==
  LET hand == PlayerAt(g, i).hand
  IN /\ \A k \in 1..Len(hand) : typeOf(hand[k]) # WILD_DRAW_FOUR
     /\ \A k \in 1..Len(hand) : countIdentical(hand, hand[k]) < 4

\* C13: with three or more players and a play that opens no claim window, a
\* DRAW_TWO played on no pending penalty leaves pendingDrawCount 2 of type
\* DRAW_TWO with the next seat to answer; a WILD_DRAW_FOUR played on that
\* penalty makes it 6 of type WILD_DRAW_FOUR; the next seat C, holding no
\* WILD_DRAW_FOUR and no four identical cards, draws 6 within the same
\* play, the penalty becomes 0/null and the turn is at the seat after C.
C13_StackedPenaltyForcesNextSeat ==
  (gamePhase = PLAYING /\ Len(players) >= 3) =>
    \A sh \in ShuffleModes, color \in SelectedColorInputs :
      \A k \in 1..Len(PlayerAt(Game, currentPlayerIndex).hand) :
        LET card   == PlayerAt(Game, currentPlayerIndex).hand[k]
            action == PlayerAction("PLAY_CARDS",
                                   PlayerAt(Game, currentPlayerIndex).id,
                                   <<card>>, color)
            g2     == handlePlayerAction(Game, action, sh)
            next   == seatAfter(Game, currentPlayerIndex)
            stacked == applyOneCardEffect(Game, card,
                                          parseSelectedColor(color))
        IN (/\ PlayAccepted(Game, action)
            /\ g2.gamePhase = PLAYING
            /\ g2.claimQueue = <<>> /\ g2.pendingEffect = NoEffect) =>
             /\ (typeOf(card) = DRAW_TWO /\ pendingDrawCount = 0) =>
                  /\ stacked.pendingDrawCount = 2
                  /\ stacked.pendingDrawType = DRAW_TWO
                  /\ playerCanRespondToPendingDraw(stacked, next) =>
                       /\ g2.pendingDrawCount = 2
                       /\ g2.pendingDrawType = DRAW_TWO
                       /\ g2.currentPlayerIndex = next
             /\ (/\ typeOf(card) = WILD_DRAW_FOUR
                 /\ pendingDrawCount = 2 /\ pendingDrawType = DRAW_TWO) =>
                  /\ stacked.pendingDrawCount = 6
                  /\ stacked.pendingDrawType = WILD_DRAW_FOUR
                  /\ (holdsNoAnswerToDrawFour(Game, next)
                      /\ drawable(Game) >= 6) =>
                       /\ Len(PlayerAt(g2, next).hand) =
                            Len(PlayerAt(Game, next).hand) + 6
                       /\ g2.pendingDrawCount = 0
                       /\ g2.pendingDrawType = NULL
                       /\ g2.currentPlayerIndex = seatAfter(Game, next)

\* a WILD_DRAW_FOUR lies on the table, played on a pending DRAW_TWO among
\* three players: the seat after its player holds six cards more than were
\* dealt, no penalty is pending and the turn is one seat further
C13_Witness ==
  /\ gamePhase = PLAYING
  /\ Len(players) = 3
  /\ lastPlayedHandType = SINGLE
  /\ Len(lastPlayedHand) = 1
  /\ typeOf(lastPlayedHand[1]) = WILD_DRAW_FOUR
  /\ Len(discardPile) = 2
  /\ typeOf(discardPile[1][1]) = DRAW_TWO
  /\ pendingDrawCount = 0 /\ pendingDrawType = NULL
  /\ HasPlayer(Game, lastPlayedBy)
  /\ LET c == seatAfter(Game, findIndexById(Game, lastPlayedBy))
     IN /\ Len(PlayerAt(Game, c).hand) = DealCount + 6
        /\ currentPlayerIndex = seatAfter(Game, c)

\* the number of cards a played card adds to the pending penalty
penaltyOf(card) ==
  IF card = 0 THEN 0
  ELSE IF typeOf(card) = DRAW_TWO THEN 2
  ELSE IF typeOf(card) = WILD_DRAW_FOUR THEN 4
  ELSE 0

\* C14: a step that takes a positive pendingDrawCount back to 0 is one in
\* which a single seated player drew the entire accumulated count (an
\* explicit PASS or DRAW_CARD, or the forced draw of nextTurn, which also
\* takes what the card played last has just added) and no other hand grew,
\* or one in which a bomb was played onto the table.
C14_PenaltyNeverDropped ==
  [][ (pendingDrawCount > 0 /\ pendingDrawCount' = 0
       /\ gamePhase = PLAYING /\ Len(players) >= 2
       /\ drawable(Game) >= pendingDrawCount + 4) =>
        \/ \E id \in PlayerIds :
             /\ HasPlayer(Game, id) /\ HasPlayer(Game, id)'
             /\ Len(handOf(Game, id))' =
                  Len(handOf(Game, id)) + pendingDrawCount
                  + (IF pendingEffect # NoEffect
                     THEN penaltyOf(pendingEffect.card)
                     ELSE IF Len(discardPile') = Len(discardPile) + 1
                     THEN penaltyOf(lastPlayedHand'[1])
                     ELSE 0)
             /\ \A other \in PlayerIds \ {id} :
                  Len(handOf(Game, other))' <= Len(handOf(Game, other))
        \/ /\ lastPlayedHandType' = BOMB
           /\ Len(discardPile') = Len(discardPile) + 1
    ]_vars

\* C15: in every reachable state pendingDrawCount is positive exactly when
\* pendingDrawType is set.
C15_PendingCountIffType ==
  (pendingDrawCount > 0) <=> (pendingDrawType # NULL)

\* a DRAW_TWO penalty waits for the answer of the seat whose turn it is
C15_Witness ==
  /\ gamePhase = PLAYING
  /\ pendingDrawCount = 2
  /\ pendingDrawType = DRAW_TWO
  /\ playerCanRespondToPendingDraw(Game, currentPlayerIndex)

\* C16: in every reachable state lastPlayedHandType is null exactly when no
\* round is active: hasActiveRound is false and lastPlayedHand is empty.
C16_HandTypeNullIffNoRound ==
  (lastPlayedHandType = NULL) <=> (~hasActiveRound /\ lastPlayedHand = <<>>)

\* a round was played and has ended: cards lie on the discard pile, no
\* round is active and no hand type is recorded
C16_Witness ==
  /\ gamePhase = PLAYING
  /\ discardPile # <<>>
  /\ ~hasActiveRound
  /\ lastPlayedHand = <<>>
  /\ lastPlayedHandType = NULL

\* C17: whenever a player is seated, currentPlayerIndex is a seat of the
\* player list.
C17_CurrentIndexInRange ==
  Len(players) > 0 =>
    (0 <= currentPlayerIndex /\ currentPlayerIndex < Len(players))

\* three players were dealt and one has left the running game with its
\* hand: two seats remain and the current index is one of them
C17_Witness ==
  /\ gamePhase = PLAYING
  /\ Len(players) = 2
  /\ \A k \in 1..2 : Len(players[k].hand) = DealCount
  /\ discardPile = <<>>
  /\ \E d \in InitialDecks : Len(deck) + 3 * DealCount = Len(d)
  /\ currentPlayerIndex \in {0, 1}

\* the position of a phase in the order WAITING, PLAYING, ENDED
phaseRank(p) == IF p = WAITING THEN 0 ELSE IF p = PLAYING THEN 1 ELSE 2

\* C18: the phase never moves back in the order WAITING, PLAYING, ENDED; a
\* player joins only while the phase is WAITING, with a new id and into a
\* room of fewer than ten, and a full room refuses an eleventh; the step
\* from WAITING to PLAYING is taken with two or more players and leaves
\* every player holding exactly the dealt number of cards (13 in the code,
\* DealCount here).
C18_PhaseForwardJoinAndDeal ==
  [][ /\ phaseRank(gamePhase') >= phaseRank(gamePhase)
      /\ Len(players') > Len(players) =>
           /\ gamePhase = WAITING
           /\ Len(players) < MaxRoomPlayers
           /\ ~HasPlayer(Game, players'[Len(players')].id)
      /\ \A id \in PlayerIds :
           (gamePhase # WAITING \/ HasPlayer(Game, id)) =>
             addPlayer(Game, id) = Game
      /\ LET full == [Game EXCEPT !.gamePhase = WAITING,
                        !.players = [k \in 1..MaxRoomPlayers |->
                                       createPlayer(k)]]
         IN addPlayer(full, MaxRoomPlayers + 1) = full
      /\ \A first \in 0..(NumPlayerIds - 1) :
           (gamePhase # WAITING \/ Len(players) < 2) =>
             startGame(Game, first) = Game
      /\ (gamePhase = WAITING /\ gamePhase' = PLAYING) =>
           /\ Len(players) >= 2
           /\ \A k \in 1..Len(players') :
                Len(players'[k].hand) = DealCount
    ]_vars

\* card c is the number card of the given colour and value
isNumberCard(c, color, value) ==
  colorOf(c) = color /\ typeOf(c) = NUMBER /\ valueOf(c) = value

\* C19: between two players, with no claim window, no effect waiting and no
\* penalty pending: the current player's single red 5 is accepted as the
\* opening play of a round; on a single red 5 of the other player a single
\* red 3 is rejected and changes nothing, and a single yellow 5 is accepted.
C19_SingleOnSingle ==
  (/\ gamePhase = PLAYING /\ Len(players) = 2
   /\ ~isClaimWindowActive(Game) /\ pendingEffect = NoEffect
   /\ pendingDrawCount = 0) =>
    \A sh \in ShuffleModes :
      \A k \in 1..Len(PlayerAt(Game, currentPlayerIndex).hand) :
        LET c      == PlayerAt(Game, currentPlayerIndex).hand[k]
            action == PlayerAction("PLAY_CARDS",
                                   PlayerAt(Game, currentPlayerIndex).id,
                                   <<c>>, "")
            g2     == handlePlayerAction(Game, action, sh)
        IN /\ (~hasActiveRound /\ isNumberCard(c, RED, 5)) =>
                /\ PlayAccepted(Game, action)
                /\ g2.discardPile = Append(discardPile, <<c>>)
           /\ (/\ hasActiveRound /\ lastPlayedHandType = SINGLE
               /\ Len(lastPlayedHand) = 1
               /\ isNumberCard(lastPlayedHand[1], RED, 5)
               /\ lastPlayedBy # PlayerAt(Game, currentPlayerIndex).id) =>
                /\ isNumberCard(c, RED, 3) =>
                     (~PlayAccepted(Game, action) /\ g2 = Game)
                /\ isNumberCard(c, YELLOW, 5) =>
                     /\ PlayAccepted(Game, action)
                     /\ g2.discardPile = Append(discardPile, <<c>>)

\* the seats the turn reaches in n consecutive calls of nextTurn
RECURSIVE seatsVisited(_, _)
seatsVisited(g, n) ==
  IF n = 0 THEN <<>>
  ELSE <<nextTurn(g, "keep").currentPlayerIndex>>
       \o seatsVisited(nextTurn(g, "keep"), n - 1)

\* C20: with N players seated, no skip flag set and no penalty pending, N
\* consecutive turn advances from any seat, in direction +1 and in
\* direction -1, reach every seat exactly once and end at the starting seat.
C20_TurnOrderClosedCycle ==
  (/\ Len(players) > 0
   /\ pendingDrawCount = 0
   /\ \A k \in 1..Len(players) : ~players[k].isSkipped) =>
    \A d \in {1, -1}, start \in 0..(Len(players) - 1) :
      LET seats == seatsVisited([Game EXCEPT !.turnDirection = d,
                                            !.currentPlayerIndex = start],
                                Len(players))
      IN /\ Len(seats) = Len(players)
         /\ Range(seats) = 0..(Len(players) - 1)
         /\ seats[Len(players)] = start

\* three players in a running game whose direction a REVERSE has turned
C20_Witness ==
  /\ gamePhase = PLAYING
  /\ Len(players) = 3
  /\ turnDirection = -1
  /\ pendingDrawCount = 0
  /\ \A k \in 1..3 : ~players[k].isSkipped
  /\ seatsVisited(Game, 3)[3] = currentPlayerIndex

\* C21: no sequence of actions leaves a pending single-card effect
\* unresolved with no claim timeout armed: while the game is played, a
\* pending effect always has a live timer that will close its window.
C21_PendingEffectKeepsTimer ==
  (gamePhase = PLAYING /\ pendingEffect # NoEffect) => actionTimeout

\* C22: a timer that has been superseded changes nothing when it fires.
\* No claim timeout stays live once its effect is resolved or claimed; a
\* claim timeout that is live in a game that has ENDED changes no field but
\* the timer itself; a UNO deadline that fires for a player who left, has
\* declared, holds another number of cards, or after the game ENDED changes
\* no field but the set of deadlines.
C22_SupersededTimersChangeNothing ==
  /\ (pendingEffect = NoEffect /\ claimQueue = <<>>) => ~actionTimeout
  /\ (gamePhase = ENDED /\ actionTimeout) =>
       \A sh \in ShuffleModes :
         [claimTimeoutCallback(Game, sh) EXCEPT !.actionTimeout = FALSE]
           = [Game EXCEPT !.actionTimeout = FALSE]
  /\ \A id \in unoTimers, sh \in ShuffleModes :
       (\/ gamePhase = ENDED
        \/ ~HasPlayer(Game, id)
        \/ getPlayerById(Game, id).hasCalledUno
        \/ Len(handOf(Game, id)) # 1) =>
         [unoTimerCallback(Game, id, sh) EXCEPT !.unoTimers = {}]
           = [Game EXCEPT !.unoTimers = {}]

\* the melded groups of the seated player id
meldsOfPlayer(g, id) ==
  IF HasPlayer(g, id) THEN getPlayerById(g, id).meldedCards ELSE <<>>

\* C23: the melded groups of a seated player only grow at the end, by one
\* group per step; a step that appends a group is the claim of one of the
\* prompted actions of that player: the group is the action's matched cards
\* (2 for CHI and PENG, 3 for GANG) plus its target card, the matched cards
\* leave the claimant's hand and the target card leaves the discard pile.
C23_ClaimMovesCards ==
  [][ \A id \in PlayerIds :
        (/\ HasPlayer(Game, id) /\ HasPlayer(Game, id)'
         /\ meldsOfPlayer(Game, id)' # meldsOfPlayer(Game, id)) =>
          /\ Len(meldsOfPlayer(Game, id)') >= Len(meldsOfPlayer(Game, id))
          /\ Len(meldsOfPlayer(Game, id)') <= Len(meldsOfPlayer(Game, id)) + 1
          /\ SubSeq(meldsOfPlayer(Game, id)', 1, Len(meldsOfPlayer(Game, id)))
               = meldsOfPlayer(Game, id)
          /\ Len(meldsOfPlayer(Game, id)') > Len(meldsOfPlayer(Game, id)) =>
               \E k \in 1..Len(pendingActions) :
                 /\ pendingActions[k].playerId = id
                 /\ Len(pendingActions[k].cards) =
                      (IF pendingActions[k].type = "GANG" THEN 3 ELSE 2)
                 /\ NoDuplicates(Append(pendingActions[k].cards,
                                        pendingActions[k].targetCard))
                 /\ Range(meldsOfPlayer(Game, id)'[
                            Len(meldsOfPlayer(Game, id)')])
                      = Range(Append(pendingActions[k].cards,
                                     pendingActions[k].targetCard))
                 /\ Len(meldsOfPlayer(Game, id)'[
                          Len(meldsOfPlayer(Game, id)')])
                      = Len(pendingActions[k].cards) + 1
                 /\ Range(pendingActions[k].cards)
                      \subseteq Range(handOf(Game, id))
                 /\ Range(pendingActions[k].cards)
                      \cap Range(handOf(Game, id)') = {}
                 /\ Range(handOf(Game, id)) \ Range(pendingActions[k].cards)
                      \subseteq Range(handOf(Game, id)')
                 /\ pendingActions[k].targetCard \in Range(Flat(discardPile))
                 /\ pendingActions[k].targetCard
                      \notin Range(Flat(discardPile'))
    ]_vars

\* a GANG was accepted: a player holds a melded group of four cards
C23_Witness ==
  /\ gamePhase = PLAYING
  /\ \E id \in PlayerIds :
       /\ Len(meldsOfPlayer(Game, id)) = 1
       /\ Len(meldsOfPlayer(Game, id)[1]) = 4
       /\ Range(meldsOfPlayer(Game, id)[1]) \cap Range(Flat(discardPile)) = {}

\* C24: while a draw penalty is pending, a PLAY_CARDS of the current player
\* is accepted, or changes the state, only if it is a BOMB, a single
\* WILD_DRAW_FOUR, or a single DRAW_TWO on a pending penalty of type
\* DRAW_TWO; a DRAW_TWO is never accepted on a pending WILD_DRAW_FOUR.
C24_PenaltyAnswers ==
  (pendingDrawCount > 0 /\ Len(players) > 0) =>
    \A sh \in ShuffleModes :
      \A cards \in PlayInputs(PlayerAt(Game, currentPlayerIndex).hand)
                   \cup ComboInputs(PlayerAt(Game, currentPlayerIndex).hand) :
        \A color \in ColorInputsFor(cards) :
          LET action == PlayerAction("PLAY_CARDS",
                                     PlayerAt(Game, currentPlayerIndex).id,
                                     cards, color)
          IN (\/ PlayAccepted(Game, action)
              \/ handlePlayerAction(Game, action, sh) # Game) =>
               \/ identifyHandType(cards) = BOMB
               \/ Len(cards) = 1 /\ typeOf(cards[1]) = WILD_DRAW_FOUR
               \/ /\ Len(cards) = 1 /\ typeOf(cards[1]) = DRAW_TWO
                  /\ pendingDrawType = DRAW_TWO

\* a WILD_DRAW_FOUR penalty waits for a player who holds a DRAW_TWO, which
\* is refused, and a WILD_DRAW_FOUR, which is accepted
C24_Witness ==
  /\ gamePhase = PLAYING
  /\ pendingDrawCount > 0
  /\ pendingDrawType = WILD_DRAW_FOUR
  /\ ~isClaimWindowActive(Game)
  /\ \E a, b \in Range(PlayerAt(Game, currentPlayerIndex).hand) :
       /\ typeOf(a) = DRAW_TWO
       /\ ~PlayAccepted(Game, PlayerAction("PLAY_CARDS",
                           PlayerAt(Game, currentPlayerIndex).id, <<a>>, ""))
       /\ typeOf(b) = WILD_DRAW_FOUR
       /\ PlayAccepted(Game, PlayerAction("PLAY_CARDS",
                          PlayerAt(Game, currentPlayerIndex).id, <<b>>,
                          "yellow"))

\* C29: a PASS of the current player outside a claim window, with no penalty
\* pending and a card to draw, adds exactly one card to that player's hand and
\* changes no other hand; when the active round is of type SINGLE, PAIR or
\* TRIPLE the turn goes to the next seat and lastPlayedHand,
\* lastPlayedHandType, lastPlayedBy, the active color and passCount stay as
\* they are.
C29_PassDrawsOneAndAdvances ==
  \A id \in PlayerIds, sh \in ShuffleModes :
    LET i  == findIndexById(Game, id)
        g2 == handlePlayerAction(Game, PlayerAction("PASS", id, <<>>, ""), sh)
    IN (/\ HasPlayer(Game, id)
        /\ ~isClaimWindowActive(Game)
        /\ i = currentPlayerIndex
        /\ pendingDrawCount = 0
        /\ drawable(Game) >= 1) =>
         /\ Len(handOf(g2, id)) = Len(handOf(Game, id)) + 1
         /\ \A k \in 1..Len(players) :
              k # i + 1 => g2.players[k].hand = players[k].hand
         /\ (hasActiveRound /\ lastPlayedHandType \in {SINGLE, PAIR, TRIPLE}) =>
              /\ g2.currentPlayerIndex = seatAfter(Game, i)
              /\ g2.lastPlayedHand = lastPlayedHand
              /\ g2.lastPlayedHandType = lastPlayedHandType
              /\ g2.lastPlayedBy = lastPlayedBy
              /\ g2.currentColor = currentColor
              /\ g2.passCount = passCount

\* a two-player game in a SINGLE round in which the seat next to the current
\* player holds one card more than was dealt and the current player, who
\* played last, may pass
C29_Witness ==
  /\ gamePhase = PLAYING
  /\ Len(players) = 2
  /\ hasActiveRound
  /\ lastPlayedHandType = SINGLE
  /\ pendingDrawCount = 0
  /\ ~isClaimWindowActive(Game)
  /\ drawable(Game) >= 1
  /\ lastPlayedBy = PlayerAt(Game, currentPlayerIndex).id
  /\ Len(PlayerAt(Game, seatAfter(Game, currentPlayerIndex)).hand)
       = DealCount + 1

\* C30: when the effect of a single SKIP, or of a single REVERSE with two
\* players, is applied during play (at once on an accepted play that opens no
\* claim window, or when the claim window of that card runs out), the seat
\* next to the actor does not get the turn: the seat after it does (the actor
\* again with two players), and the skipped seat's flag is clear afterwards.
C30_SkippedSeatLosesTurn ==
  gamePhase = PLAYING =>
    /\ \A id \in PlayerIds, sh \in ShuffleModes :
         \A c \in Range(handOf(Game, id)) :
           LET i      == findIndexById(Game, id)
               action == PlayerAction("PLAY_CARDS", id, <<c>>, "")
               g2     == handlePlayerAction(Game, action, sh)
           IN (/\ \/ typeOf(c) = SKIP
                  \/ typeOf(c) = REVERSE /\ Len(players) = 2
               /\ PlayAccepted(Game, action)
               /\ g2.pendingEffect = NoEffect
               /\ g2.gamePhase = PLAYING) =>
                /\ g2.currentPlayerIndex = seatAfter(Game, seatAfter(Game, i))
                /\ Len(players) > 2 =>
                     g2.currentPlayerIndex # seatAfter(Game, i)
                /\ ~g2.players[seatAfter(Game, i) + 1].isSkipped
    /\ \A sh \in ShuffleModes :
         LET a  == findIndexById(Game, pendingEffect.playedById)
             g2 == claimTimeoutCallback(Game, sh)
         IN (/\ isClaimWindowActive(Game)
             /\ a >= 0
             /\ \/ typeOf(pendingEffect.card) = SKIP
                \/ typeOf(pendingEffect.card) = REVERSE /\ Len(players) = 2
             /\ g2.pendingEffect = NoEffect
             /\ g2.gamePhase = PLAYING) =>
              /\ g2.currentPlayerIndex = seatAfter(Game, seatAfter(Game, a))
              /\ ~g2.players[seatAfter(Game, a) + 1].isSkipped

\* three players, a single SKIP was played last, no claim is open and the turn
\* is two seats after the player of the SKIP
C30_Witness ==
  /\ gamePhase = PLAYING
  /\ Len(players) = 3
  /\ Len(lastPlayedHand) = 1
  /\ typeOf(lastPlayedHand[1]) = SKIP
  /\ pendingEffect = NoEffect
  /\ HasPlayer(Game, lastPlayedBy)
  /\ currentPlayerIndex # findIndexById(Game, lastPlayedBy)
  /\ PlayerAt(Game, currentPlayerIndex).hand # <<>>
  /\ \A k \in 1..Len(players) :
       /\ ~players[k].isSkipped
       /\ Len(players[k].hand) <= DealCount

\* the cards beat the table's last hand as a bomb: the table shows no BOMB, or
\* they are more cards, or as many cards of strictly higher power
bombBeatsTable(g, cards) ==
  \/ g.lastPlayedHandType # BOMB
  \/ Len(cards) > Len(g.lastPlayedHand)
  \/ /\ Len(cards) = Len(g.lastPlayedHand)
     /\ getCardPower(cards[1]) > getCardPower(g.lastPlayedHand[1])

\* C25: in an active round during play, a BOMB of cards of the current
\* player's hand, submitted outside a claim window (with a colour when it
\* holds wild cards), is accepted exactly when the table's last hand is no
\* BOMB, or the bomb has more cards, or as many cards and strictly higher
\* power -- also while a draw penalty is pending.
C25_BombBeatsOnlyWeakerBomb ==
  (gamePhase = PLAYING /\ hasActiveRound /\ lastPlayedHand # <<>>) =>
    \A cards \in ComboInputs(PlayerAt(Game, currentPlayerIndex).hand) :
      \A color \in ColorInputsFor(cards) :
        LET action == PlayerAction("PLAY_CARDS",
                                   PlayerAt(Game, currentPlayerIndex).id,
                                   cards, color)
        IN (/\ identifyHandType(cards) = BOMB
            /\ ~isClaimWindowActive(Game)
            /\ ~PlayerAt(Game, currentPlayerIndex).isSkipped
            /\ (color = "" \/ parseSelectedColor(color) # NULL)
            /\ (color = "" => \A k \in 1..Len(cards) :
                                typeOf(cards[k]) \notin {WILD, WILD_DRAW_FOUR}))
           => (PlayAccepted(Game, action) <=> bombBeatsTable(Game, cards))

ComboHandTypes == {STRAIGHT, CONSECUTIVE_PAIRS, AIRPLANE, FULL_HOUSE}

\* C26: during play, while the active round's last hand is a STRAIGHT,
\* CONSECUTIVE_PAIRS, AIRPLANE or FULL_HOUSE, a play of the current player
\* (cards of its hand, outside a claim window) that is no BOMB is accepted
\* exactly when it has the table's hand type and number of cards, whatever its
\* ranks and colours; a SINGLE, PAIR or TRIPLE is never accepted.
C26_ComboRoundSameTypeSameLength ==
  (gamePhase = PLAYING /\ hasActiveRound
     /\ lastPlayedHandType \in ComboHandTypes) =>
    \A cards \in ComboInputs(PlayerAt(Game, currentPlayerIndex).hand) :
      \A color \in ColorInputsFor(cards) :
        LET action == PlayerAction("PLAY_CARDS",
                                   PlayerAt(Game, currentPlayerIndex).id,
                                   cards, color)
        IN (/\ identifyHandType(cards) # BOMB
            /\ ~isClaimWindowActive(Game)
            /\ ~PlayerAt(Game, currentPlayerIndex).isSkipped) =>
             /\ PlayAccepted(Game, action) <=>
                  /\ identifyHandType(cards) = lastPlayedHandType
                  /\ Len(cards) = Len(lastPlayedHand)
             /\ identifyHandType(cards) \in {SINGLE, PAIR, TRIPLE} =>
                  handlePlayerAction(Game, action, "keep") = Game

\* a STRAIGHT of five cards was answered by a STRAIGHT of five cards that
\* holds a yellow card and starts at another rank
C26_Witness ==
  /\ gamePhase = PLAYING
  /\ lastPlayedHandType = STRAIGHT
  /\ Len(discardPile) = 2
  /\ identifyHandType(discardPile[1]) = STRAIGHT
  /\ Len(discardPile[1]) = Len(discardPile[2])
  /\ discardPile[2] = lastPlayedHand
  /\ \E k \in 1..Len(lastPlayedHand) : colorOf(lastPlayedHand[k]) = YELLOW
  /\ \A k \in 1..Len(discardPile[1]) : colorOf(discardPile[1][k]) = RED
  /\ {valueOf(c) : c \in Range(discardPile[1])}
       # {valueOf(c) : c \in Range(discardPile[2])}

\* every ordering of the cards of the set S
RECURSIVE Orderings(_)
Orderings(S) ==
  IF S = {} THEN {<<>>}
  ELSE UNION {{<<x>> \o p : p \in Orderings(S \ {x})} : x \in S}

\* the card lists of up to n cards of the hand, in every order
Arrangements(hand, n) ==
  UNION {Orderings(T) : T \in {U \in SUBSET Range(hand) : Cardinality(U) <= n}}

\* the number of cards of the list that show rank r
rankCount(cards, r) == Cardinality({k \in 1..Len(cards) : valueOf(cards[k]) = r})

\* number cards only, every rank shown exactly m times, the ranks shown
\* without a gap
ranksRunOf(cards, m) ==
  LET ranks == {valueOf(cards[k]) : k \in 1..Len(cards)}
  IN /\ \A k \in 1..Len(cards) : typeOf(cards[k]) = NUMBER
     /\ \A r \in ranks : rankCount(cards, r) = m
     /\ \A r \in ranks : r - 1 \in ranks \/ \A q \in ranks : q >= r

\* the classifier of the hand evaluator as a function of the multiset of
\* cards: it reads the cards' faces and counts only
classifyMultiset(cards) ==
  LET n     == Len(cards)
      faces == {createDeck[cards[k]] : k \in 1..n}
      ranks == {valueOf(cards[k]) : k \in 1..n}
  IN CASE n = 0 -> NULL
       [] n = 1 -> SINGLE
       [] n \in {2, 3} /\ Cardinality(faces) = 1 ->
            IF \E f \in faces : f.type = NUMBER
            THEN (IF n = 2 THEN PAIR ELSE TRIPLE) ELSE NULL
       [] n >= 4 /\ Cardinality(faces) = 1 -> BOMB
       [] n = 5 /\ Cardinality(faces) > 1
            /\ (\A k \in 1..n : typeOf(cards[k]) = NUMBER)
            /\ Cardinality(ranks) = 2
            /\ {rankCount(cards, r) : r \in ranks} = {2, 3} -> FULL_HOUSE
       [] n >= 5 /\ Cardinality(faces) > 1 /\ ranksRunOf(cards, 1) -> STRAIGHT
       [] n >= 6 /\ Cardinality(faces) > 1 /\ ranksRunOf(cards, 2) ->
            CONSECUTIVE_PAIRS
       [] n >= 6 /\ Cardinality(faces) > 1 /\ ranksRunOf(cards, 3) -> AIRPLANE
       [] OTHER -> NULL

\* C27: identifyHandType gives the class of the multiset of cards, in whatever
\* order the cards are submitted: for every selection of up to MaxComboLen
\* cards of a hand, in hand order and reversed, in every reachable state, and
\* for every ordering of every such selection of the hands as dealt.
C27_HandTypeOfMultiset ==
  \A k \in 1..Len(players) :
    /\ \A cards \in ComboInputs(players[k].hand) \cup {<<>>} :
         /\ identifyHandType(cards) = classifyMultiset(cards)
         /\ identifyHandType(Reverse(cards)) = classifyMultiset(cards)
    /\ (/\ discardPile = <<>>
        /\ \E deal \in ComboDeals : players = [j \in 1..2 |->
               [createPlayer(j) EXCEPT !.hand = deal.hands[j]]]) =>
         \A cards \in Arrangements(players[k].hand, MaxComboLen) :
           identifyHandType(cards) = classifyMultiset(cards)

\* CONSECUTIVE_PAIRS of six cards were played and classified, and the current
\* player holds an AIRPLANE, a TRIPLE and six cards that make no hand
C27_Witness ==
  /\ gamePhase = PLAYING
  /\ lastPlayedHandType = CONSECUTIVE_PAIRS
  /\ Len(lastPlayedHand) = MaxComboLen
  /\ identifyHandType(Reverse(lastPlayedHand)) = CONSECUTIVE_PAIRS
  /\ \E a \in ComboInputs(PlayerAt(Game, currentPlayerIndex).hand) :
       identifyHandType(Reverse(a)) = AIRPLANE
  /\ \E c \in ComboInputs(PlayerAt(Game, currentPlayerIndex).hand) :
       identifyHandType(c) = TRIPLE
  /\ \E d \in ComboInputs(PlayerAt(Game, currentPlayerIndex).hand) :
       Len(d) = MaxComboLen /\ identifyHandType(d) = NULL

\* C28: in a combination round during play, a PASS of the current player
\* starts a new round only as the pass of a seat other than the last
\* successful player (whose own pass does not count, and who gets the turn
\* back without a new round when another seat drew with DRAW_CARD instead of
\* passing); the new round is led by the last successful player and
\* lastPlayedHand, lastPlayedHandType, lastPlayedBy, the active color and
\* passCount are reset.
C28_NewRoundOnlyAfterOthersPassed ==
  (gamePhase = PLAYING /\ hasActiveRound /\ ~isClaimWindowActive(Game)
     /\ lastPlayedHandType \in ComboHandTypes
     /\ HasPlayer(Game, lastPlayedBy)) =>
    \A sh \in ShuffleModes :
      LET id == PlayerAt(Game, currentPlayerIndex).id
          g2 == handlePlayerAction(Game, PlayerAction("PASS", id, <<>>, ""),
                                   sh)
      IN (g2.gamePhase = PLAYING /\ ~g2.hasActiveRound) =>
           /\ id # lastPlayedBy
           /\ g2.currentPlayerIndex = findIndexById(Game, lastPlayedBy)
           /\ g2.lastPlayedHand = <<>>
           /\ g2.lastPlayedHandType = NULL
           /\ g2.lastPlayedBy = 0
           /\ g2.currentColor = NULL
           /\ g2.passCount = 0

\* C38: no seated player is flagged skipped in a reachable state: the flag a
\* SKIP or a two-player REVERSE sets is consumed by the turn advance of the
\* same step, so no PLAY_CARDS or PASS ever meets a skipped current player.
C38_NoSkipFlagBetweenActions ==
  /\ \A k \in 1..Len(players) : ~players[k].isSkipped
  /\ \A id \in PlayerIds, sh \in ShuffleModes :
       \A cards \in PlayInputs(handOf(Game, id)) :
         HasPlayer(Game, id) =>
           playVerdict(Game, findIndexById(Game, id), cards,
                       identifyHandType(cards), RED) # "skipped"

\* three players, the SKIP played last took effect: the turn is two seats
\* after its player and the seat in between carries no flag
C38_Witness ==
  /\ gamePhase = PLAYING
  /\ Len(players) = 3
  /\ Len(lastPlayedHand) = 1
  /\ typeOf(lastPlayedHand[1]) = SKIP
  /\ pendingEffect = NoEffect
  /\ HasPlayer(Game, lastPlayedBy)
  /\ currentPlayerIndex =
       seatAfter(Game, seatAfter(Game, findIndexById(Game, lastPlayedBy)))
  /\ ~PlayerAt(Game, seatAfter(Game, findIndexById(Game, lastPlayedBy))).isSkipped

\* C32: in WAITING and in PLAYING, removePlayer of a seated player other than
\* the current player leaves the current player the same player (the index
\* moves down by one when the removed seat precedes it).
C32_RemovalKeepsCurrentPlayer ==
  (gamePhase \in {WAITING, PLAYING} /\ Len(players) > 0) =>
    \A id \in PlayerIds :
      (HasPlayer(Game, id) /\ id # PlayerAt(Game, currentPlayerIndex).id) =>
        /\ removePlayer(Game, id).currentPlayerIndex
             \in 0..(Len(players) - 2)
        /\ PlayerAt(removePlayer(Game, id),
                    removePlayer(Game, id).currentPlayerIndex).id
             = PlayerAt(Game, currentPlayerIndex).id
        /\ removePlayer(Game, id).currentPlayerIndex =
             IF findIndexById(Game, id) < currentPlayerIndex
             THEN currentPlayerIndex - 1 ELSE currentPlayerIndex

\* player 1 left a dealt game of three in which player 3 had the turn: player
\* 3 still has it, now at index 1
C32_Witness ==
  /\ gamePhase = PLAYING
  /\ Len(players) = 2
  /\ players[1].id = 2
  /\ players[2].id = 3
  /\ currentPlayerIndex = 1
  /\ discardPile = <<>>
  /\ \A k \in 1..2 : Len(players[k].hand) = DealCount

\* C36: when the current player is removed during play and at least two
\* players remain, the turn is with the player that was the next seat in the
\* turn direction: for direction -1 the seat before the removed one in list
\* order.
C36_RemovedCurrentPassesTurnInDirection ==
  (gamePhase = PLAYING /\ Len(players) >= 3) =>
    PlayerAt(removePlayer(Game, PlayerAt(Game, currentPlayerIndex).id),
             removePlayer(Game, PlayerAt(Game, currentPlayerIndex).id)
               .currentPlayerIndex).id
      = PlayerAt(Game, getNextPlayerIndex(Game)).id

\* C31: while a claim window is open and the pending single card lies in the
\* discard history, a UNO deadline that fires leaves that card in the discard
\* history, and an accepted PENG or GANG leaves it in no draw pile and in no
\* hand: no draw on an empty draw pile shuffles it away.
C31_PendingCardNotReshuffled ==
  (gamePhase = PLAYING /\ isClaimWindowActive(Game)
     /\ pendingEffect.card \in Range(Flat(discardPile))) =>
    /\ \A id \in unoTimers, sh \in ShuffleModes :
         pendingEffect.card
           \in Range(Flat(unoTimerCallback(Game, id, sh).discardPile))
    /\ \A id \in PlayerIds, sh \in ShuffleModes, t \in {"PENG", "GANG"} :
         LET g2 == handlePlayerAction(Game, PlayerAction(t, id, <<>>, ""), sh)
         IN meldsOfPlayer(g2, id) # meldsOfPlayer(Game, id) =>
              /\ pendingEffect.card \notin Range(g2.deck)
              /\ \A k \in 1..Len(g2.players) :
                   pendingEffect.card \notin Range(g2.players[k].hand)

\* every card id of the draw pile, the hands, the melded groups and the
\* discard history, with repetitions
allCards(g) ==
  g.deck \o Flat(handsOf(g))
    \o Flat([k \in 1..Len(g.players) |-> Flat(g.players[k].meldedCards)])
    \o Flat(g.discardPile)

\* how often card id c occurs in the sequence of ids s
occurrences(s, c) == Cardinality({i \in 1..Len(s) : s[i] = c})

\* for every card id of createDeck, how often it occurs among draw pile,
\* hands, melded groups and discard history
cardCounts(g) == [c \in 1..Len(createDeck) |-> occurrences(allCards(g), c)]

\* C34: a step in which no seated player leaves keeps the cards: the card
\* ids of the draw pile, the hands, the melded groups and the discard history
\* are the same ids, each as often as before, so that no id is duplicated or
\* lost.
C34_CardsConserved ==
  [][ (\A id \in PlayerIds : HasPlayer(Game, id) => HasPlayer(Game, id)') =>
        cardCounts(Game)' = cardCounts(Game) ]_vars

\* the number of cards one other player draws when a claim of kind t on
\* targetCard is accepted
claimDrawCount(t, targetCard) ==
  IF t = "CHI" THEN 0
  ELSE IF typeOf(targetCard) = DRAW_TWO THEN 2
  ELSE IF typeOf(targetCard) = WILD_DRAW_FOUR THEN 4
  ELSE 0

offersFromHand(g, a) ==
  /\ NoDuplicates(a.cards)
  /\ Range(a.cards) \subseteq Range(handOf(g, a.playerId))

\* the target and the two offered cards are NUMBER cards of one colour whose
\* values are three consecutive numbers
completesRun(a) ==
  /\ Len(a.cards) = 2
  /\ typeOf(a.targetCard) = NUMBER
  /\ \A c \in Range(a.cards) :
       typeOf(c) = NUMBER /\ colorOf(c) = colorOf(a.targetCard)
  /\ \E low \in 0..9 :
       {valueOf(a.targetCard)} \cup {valueOf(c) : c \in Range(a.cards)}
         = {low, low + 1, low + 2}

\* the claim queue of g, built for card played by playedById, is well-formed
claimQueueWellFormed(g, card, playedById) ==
  /\ \A i, j \in 1..Len(g.claimQueue) :
       i # j => g.claimQueue[i].playerId # g.claimQueue[j].playerId
  /\ \A i \in 1..Len(g.claimQueue) :
       /\ g.claimQueue[i].playerId # playedById
       /\ HasPlayer(g, g.claimQueue[i].playerId)
       /\ g.claimQueue[i].actions # <<>>
       /\ \A n \in 1..Len(g.claimQueue[i].actions) :
            /\ g.claimQueue[i].actions[n].playerId = g.claimQueue[i].playerId
            /\ g.claimQueue[i].actions[n].targetCard = card
            /\ offersFromHand(g, g.claimQueue[i].actions[n])
            /\ g.claimQueue[i].actions[n].type \in {"GANG", "PENG", "CHI"}
            /\ g.claimQueue[i].actions[n].type = "GANG" =>
                 /\ Len(g.claimQueue[i].actions[n].cards) = 3
                 /\ \A c \in Range(g.claimQueue[i].actions[n].cards) :
                      cardsAreIdentical(c, card)
            /\ g.claimQueue[i].actions[n].type = "PENG" =>
                 /\ Len(g.claimQueue[i].actions[n].cards) = 2
                 /\ \A c \in Range(g.claimQueue[i].actions[n].cards) :
                      cardsAreIdentical(c, card)
            /\ g.claimQueue[i].actions[n].type = "CHI" =>
                 /\ completesRun(g.claimQueue[i].actions[n])
                 /\ findIndexById(g, g.claimQueue[i].playerId)
                      = seatAfter(g, findIndexById(g, playedById))

\* C37: a step that builds a claim queue builds a well-formed one: no player
\* in two entries, never the player of the card, a GANG entry offers three
\* and a PENG entry two cards of the candidate's hand identical to the target,
\* a CHI entry is for the seat after the player of the card and offers two
\* hand cards that make a same-colour run of three with a NUMBER target.
C37_ClaimQueueWellFormed ==
  [][ (claimQueue' # claimQueue /\ claimQueue' # <<>>) =>
        claimQueueWellFormed(Game, pendingEffect.card, pendingEffect.playedById)' ]_vars

\* the direction was reversed and seat 2 played a single NUMBER card: the
\* queue holds one CHI entry, for the player at seat 1
C37_Witness ==
  /\ gamePhase = PLAYING
  /\ Len(players) = 3
  /\ turnDirection = -1
  /\ pendingEffect.playedById = PlayerAt(Game, 2).id
  /\ typeOf(pendingEffect.card) = NUMBER
  /\ Len(claimQueue) = 1
  /\ claimQueue[1].playerId = PlayerAt(Game, 1).id
  /\ claimQueue[1].actions[1].type = "CHI"

\* C33: when a player is removed while a claim window is open and the game
\* goes on, the claim state is repaired: the removed player is not the
\* prompted candidate, is in no claim-queue entry and no pendingActions
\* entry, and no effect played by the removed player stays pending.
C33_RemovalRepairsClaimState ==
  (gamePhase = PLAYING /\ isClaimWindowActive(Game)) =>
    \A id \in PlayerIds :
      LET g2 == removePlayer(Game, id)
      IN (HasPlayer(Game, id) /\ g2.gamePhase = PLAYING) =>
           /\ getCurrentClaimPlayerId(g2) # id
           /\ \A i \in 1..Len(g2.claimQueue) : g2.claimQueue[i].playerId # id
           /\ \A i \in 1..Len(g2.pendingActions) :
                g2.pendingActions[i].playerId # id
           /\ g2.pendingEffect.playedById # id

\* C35: in every PLAYING state, claim window open or not, DECLARE_UNO from a
\* seated player who holds exactly one card and has not declared sets
\* hasCalledUno and cancels that player's UNO deadline.
C35_DeclareUnoAlwaysAccepted ==
  gamePhase = PLAYING =>
    \A id \in PlayerIds :
      LET g2 == handlePlayerAction(Game, PlayerAction("DECLARE_UNO", id, <<>>, ""),
                                   "keep")
      IN (/\ HasPlayer(Game, id)
          /\ Len(handOf(Game, id)) = 1
          /\ ~PlayerAt(Game, findIndexById(Game, id)).hasCalledUno) =>
           /\ PlayerAt(g2, findIndexById(g2, id)).hasCalledUno
           /\ id \notin g2.unoTimers

\* the penalty a play left behind: the pending count plus the cards the other
\* players drew, for a play of n cards that turned g into g2
penaltyCharged(g, g2, n) ==
  g2.pendingDrawCount
    + Len(Flat(handsOf(g2))) - (Len(Flat(handsOf(g))) - n)

\* the pending count a play of hand type handType starts from (lines 445-449)
penaltyBase(g, handType) ==
  IF g.pendingDrawCount > 0 /\ handType = BOMB THEN 0 ELSE g.pendingDrawCount

\* C39: an accepted play of two or more cards that does not end the game
\* applies the effect of its first card once: the penalty (pending count plus
\* cards drawn by the others) is 2 above its base for DRAW_TWO cards and 4 for
\* WILD_DRAW_FOUR cards, SKIP cards pass over exactly one seat, REVERSE cards
\* flip the direction once.
C39_MultiCardEffectOnce ==
  (gamePhase = PLAYING /\ Len(players) >= 2) =>
    \A sh \in ShuffleModes :
      \A cards \in PlayInputs(PlayerAt(Game, currentPlayerIndex).hand)
                   \cup ComboInputs(PlayerAt(Game, currentPlayerIndex).hand) :
        \A color \in ColorInputsFor(cards) :
          LET action == PlayerAction("PLAY_CARDS",
                                     PlayerAt(Game, currentPlayerIndex).id,
                                     cards, color)
              g2 == handlePlayerAction(Game, action, sh)
              base == penaltyBase(Game, identifyHandType(cards))
          IN (/\ Len(cards) >= 2
              /\ Len(cards) < Len(PlayerAt(Game, currentPlayerIndex).hand)
              /\ typeOf(cards[1]) \in {DRAW_TWO, WILD_DRAW_FOUR, SKIP, REVERSE}
              /\ PlayAccepted(Game, action)) =>
               /\ g2.gamePhase = PLAYING
               /\ typeOf(cards[1]) = DRAW_TWO =>
                    (Len(deck) >= base + 2 =>
                       penaltyCharged(Game, g2, Len(cards)) = base + 2)
               /\ typeOf(cards[1]) = WILD_DRAW_FOUR =>
                    (Len(deck) >= base + 4 =>
                       penaltyCharged(Game, g2, Len(cards)) = base + 4)
               /\ typeOf(cards[1]) \in {SKIP, REVERSE} =>
                    penaltyCharged(Game, g2, Len(cards)) = base
               /\ typeOf(cards[1]) = SKIP =>
                    /\ g2.currentPlayerIndex
                         = seatAfter(Game, seatAfter(Game, currentPlayerIndex))
                    /\ g2.turnDirection = turnDirection
               /\ typeOf(cards[1]) = REVERSE =>
                    /\ g2.turnDirection = -1 * turnDirection
                    /\ g2.currentPlayerIndex =
                         IF Len(players) = 2 THEN currentPlayerIndex
                         ELSE seatAfter(g2, currentPlayerIndex)
               /\ \A k \in 1..Len(g2.players) : ~g2.players[k].isSkipped

\* a bomb of four DRAW_TWO was played on no pending penalty: 2 cards are
\* pending for the other seat
C39_Witness ==
  /\ gamePhase = PLAYING
  /\ lastPlayedHandType = BOMB
  /\ Len(lastPlayedHand) = 4
  /\ typeOf(lastPlayedHand[1]) = DRAW_TWO
  /\ Len(discardPile) = 1
  /\ pendingDrawCount = 2
  /\ PlayerAt(Game, currentPlayerIndex).id # lastPlayedBy

====
